---- MODULE Spec2Model ----
(***************************************************************************)
(* Detection / aggregation / risk-gating core of the ATS trading system.   *)
(*                                                                         *)
(* Time is the integer `now` (seconds, what datetime.utcnow() returns);    *)
(* one handler runs at one instant, time passes between handlers (the Tick actions).*)
(* Python dicts are functions whose DOMAIN is the set of keys present.     *)
(* Decimal quantities are kept exact as scaled integers: confidences in    *)
(* percent, weights in tenths.                                             *)
(* The modules' `stats` counters (but for the latency manager's count of    *)
(* threshold adjustments) and the slippage log are reporting data that no  *)
(* handler reads back; they are not part of the state. Of the order-flow   *)
(* and liquidity signal histories the state keeps the time of each         *)
(* symbol's latest record (of_last_fired, lq_last_fired).                  *)
(***************************************************************************)
EXTENDS Integers, Sequences, FiniteSets, TLC

VARIABLES
    now,                   \* datetime.utcnow(), seconds
    agg_recent_signals,    \* SignalAggregator.recent_signals: symbol -> list of raw signals
    agg_symbol_cooldowns,  \* SignalAggregator.symbol_cooldowns: symbol -> expiry
    agg_combined_signals,  \* SignalAggregator.combined_signals: history list
    cd_cooldown_periods,   \* CooldownManager.cooldown_periods: symbol -> expiry
    cd_signal_history,     \* CooldownManager.signal_history: symbol -> list of outcomes (success)
    cd_symbol_specific_cooldowns,  \* CooldownManager.symbol_specific_cooldowns: symbol -> minutes
    cd_default_cooldown_minutes,   \* CooldownManager.default_cooldown_minutes
    cd_last_set,           \* history: symbol -> time and minutes of its latest set_cooldown
    mr_price_windows,      \* MarketRegimeFilter.price_windows: symbol -> the window's length
                           \*   and the annualized volatility its prices give (per mille)
    mr_current_regime,     \* MarketRegimeFilter.current_regime
    mr_pending_regime,     \* MarketRegimeFilter.pending_regime ("None" when absent)
    mr_regime_confirmations,  \* MarketRegimeFilter.regime_confirmations
    mr_streak,             \* history: the regime the latest evaluations classified, and how
                           \*   many evaluations in a row classified it
    of_trade_windows,      \* OrderFlowAnalyzer.trade_windows: symbol -> deque of trades
    of_signal_cooldowns,   \* OrderFlowAnalyzer.signal_cooldowns: symbol -> expiry
    of_last_fired,         \* history: symbol -> time of its latest order-flow signal
    lq_liquidity_windows,  \* LiquidityAnalyzer.liquidity_windows: symbol -> deque of readings
    lq_signal_cooldowns,   \* LiquidityAnalyzer.signal_cooldowns: symbol -> expiry
    lq_last_fired,         \* history: symbol -> time of its latest liquidity signal
    lt_latency_history,    \* LatencyCompensationManager.latency_history: component -> deque
    lt_current_thresholds, \* LatencyCompensationManager.current_thresholds: type -> value
    lt_threshold_adjustments,  \* LatencyCompensationManager.stats['threshold_adjustments']
    vp_price_windows,      \* VolumePriceAnalyzer.price_windows: symbol -> the window's length
                           \*   and the price stability numpy computes from it
    vp_volume_windows,     \* VolumePriceAnalyzer.volume_windows: symbol -> the window's length
                           \*   and the volume increase numpy computes from it
    vp_correlations,       \* symbol -> the correlation pandas computes from its two windows
    vp_signal_cooldowns,   \* VolumePriceAnalyzer.signal_cooldowns: symbol -> expiry
    vp_signal_history,     \* VolumePriceAnalyzer.signal_history: list of signal records
    agg_calls,             \* the add_algorithm_signal calls of the threads: position and arguments
    pt_current_balance,    \* PaperTradingEngine.current_balance
    pt_positions,          \* PaperTradingEngine.positions: symbol -> position size
    pt_position_costs,     \* PaperTradingEngine.position_costs: symbol -> average cost basis
    pt_market_prices,      \* PaperTradingEngine.market_prices: symbol -> current price
    pt_trade_history,      \* PaperTradingEngine.trade_history: list of trade records
    last_op                \* the handler that ran last, its arguments and return value

aggVars == <<agg_recent_signals, agg_symbol_cooldowns, agg_combined_signals>>
cdVars == <<cd_cooldown_periods, cd_signal_history, cd_symbol_specific_cooldowns,
           cd_default_cooldown_minutes, cd_last_set>>
mrVars == <<mr_price_windows, mr_current_regime, mr_pending_regime, mr_regime_confirmations,
            mr_streak>>

ofVars == <<of_trade_windows, of_signal_cooldowns, of_last_fired>>
lqVars == <<lq_liquidity_windows, lq_signal_cooldowns, lq_last_fired>>

ltVars == <<lt_latency_history, lt_current_thresholds, lt_threshold_adjustments>>
vpVars == <<vp_price_windows, vp_volume_windows, vp_correlations, vp_signal_cooldowns, vp_signal_history>>
callVars == <<agg_calls>>
ptVars == <<pt_current_balance, pt_positions, pt_position_costs, pt_market_prices, pt_trade_history>>
restVars == <<ltVars, vpVars, callVars, ptVars>>

vars == <<now, aggVars, cdVars, mrVars, ofVars, lqVars, restVars, last_op>>

----------------------------------------------------------------------------
(* Bounds of the model *)

MaxAggTicks == 22      \* SpecAgg: number of clock steps
MaxRecent == 3         \* SpecAgg: raw signals a symbol's buffer may hold
MaxCdTicks == 31       \* SpecCooldown: clock horizon, in minutes
MaxHistory == 2        \* SpecCooldown, SpecConfig: outcomes recorded per symbol
MaxPricePoints == 10   \* prices a window may hold
MaxAltPoints == 1      \* SpecRegime: prices of a symbol outside the regime pair
MaxGateTicks == 3      \* SpecGate: number of clock steps
MaxGateHistory == 1    \* SpecGate: outcomes recorded per symbol
MaxFlowTicks == 5      \* SpecFlow: number of clock steps
MaxTrades == 3         \* SpecFlow, SpecDetect: trades a window may hold
MaxDetectTicks == 3    \* SpecDetect: number of clock steps
MaxLiqTicks == 2        \* SpecLiquidity: number of clock steps
MaxReadings == 3        \* SpecLiquidity: readings a window may hold
MaxOutcomes == 11      \* SpecDynamic: outcomes recorded for the symbol under study
MaxOtherOutcomes == 1  \* SpecDynamic: outcomes recorded for another symbol
MaxLatencySamples == 10      \* SpecLatency: measurements of the component under study
MaxOtherLatencySamples == 1  \* SpecLatency: measurements of any other component
MaxVpTicks == 4         \* SpecVolumePrice: number of clock steps
MaxVpPrices == 5        \* SpecVolumePrice: points a price window may hold
MaxVpVolumes == 10      \* SpecVolumePrice: points a volume window may hold
MaxRaceTicks == 3       \* SpecRace: number of clock steps
MaxRaceRecent == 3      \* SpecRace: raw signals a symbol's buffer may hold
MaxPipeTicks == 2       \* SpecPipeline: number of clock steps
MaxStrengthTicks == 6   \* SpecStrength: number of clock steps
MaxStickySamples == 6   \* SpecSticky: measurements held for the component
MaxBuys == 1            \* SpecPaper: BUY signals executed
MaxPaperTrades == 3     \* SpecPaper: trades the history may hold
MaxOverdrawBuys == 2    \* SpecOverdraw: BUY signals executed
MaxValueDigits == 2000  \* SpecOverdraw: largest numerator of a position value bought
MaxSampleTicks == 2     \* SpecSamples: number of clock steps
MaxSamples == 2         \* SpecSamples: samples a window may hold
MaxIsoSamples == 2      \* SpecIsolation: trades, readings and raw signals held per symbol
MaxIsoPoints == 1       \* SpecIsolation: outcomes recorded per symbol

(* Inputs *)
Symbols == {"SOL"}
SignalTypes == {"BUY", "SELL"}
\* (algorithm_name, confidence in percent) as the pipeline passes them
AlgorithmSignals == {<<"order_flow", 80>>, <<"liquidity", 70>>}
AggTickSeconds == {15}
\* SpecStrength: (algorithm_name, confidence in percent), all three weights, confidences up to 1.0
StrengthSignals == {<<"order_flow", 80>>, <<"order_flow", 100>>, <<"liquidity", 95>>, <<"volume_price", 60>>}
StrengthTickSeconds == {5}
\* set_cooldown's minutes argument: <<>> when omitted (None), <<m>> when given
CooldownMinutes == {<<>>, <<1>>, <<20>>}
CdTickSeconds == {60, 540}
\* SpecDynamic: the symbol whose cooldown is computed, and another one
DynamicSymbols == {"SOL"}
OtherSymbols == {"AVAX"}
\* SpecConfig: the base durations configured, in minutes
ConfiguredDefaults == {2, 120}
ConfiguredSymbolMinutes == {1, 40, 100}
PriceSymbols == {"BTC", "ETH"}
\* annualized volatilities, per mille
VolLevels == {0, 20, 50, 100, 200}
\* SpecGate: seconds between decisions; the volatility of a full BTC window
GateTickSeconds == {300}
GateVolLevels == {100}
AltPriceSymbols == {"SOL"}
\* order books handed to the gate
NoBook == [k \in {} |-> <<>>]
EmptySidesBook == [asks |-> <<>>, bids |-> <<>>]
ZeroQuantityBook == [asks |-> <<<<50, 0>>, <<51, 0>>>>, bids |-> <<<<50, 0>>>>]
DeepBook == [asks |-> <<<<50, 4>>, <<51, 4>>>>, bids |-> <<<<50, 4>>, <<49, 4>>>>]
ThinBook == [asks |-> <<<<50, 1>>, <<60, 10>>>>, bids |-> <<<<50, 1>>, <<40, 10>>>>]
ZeroPriceBook == [asks |-> <<<<0, 4>>>>, bids |-> <<<<0, 4>>>>]
\* SpecSlippage: the arguments of calculate_slippage and of should_cancel_signal
SlipOrderBooks == {NoBook, EmptySidesBook, ZeroQuantityBook, DeepBook, ThinBook, ZeroPriceBook}
SlipTradeSizes == {0, 1, 5, 8, 100, 200, 396, 404, 1000}
TradeSides == {"BUY", "SELL"}
\* the arguments of get_optimal_trade_size: a book of 21 levels and one whose best
\* ask is priced 0
LongBook == [asks |-> [i \in 1..21 |-> <<50, 1>>], bids |-> [i \in 1..21 |-> <<50, 1>>]]
ZeroBestPriceBook == [asks |-> <<<<0, 4>>, <<50, 10>>>>, bids |-> <<<<50, 4>>>>]
OptimalSizeBooks == SlipOrderBooks \cup {LongBook, ZeroBestPriceBook}
\* SpecMonotone: books of two, three and 21 levels listed best-first, one whose
\* last level is out of order, and the trade sizes compared (quote currency for BUY, base for SELL)
SteppedBook == [asks |-> <<<<50, 2>>, <<52, 1>>, <<55, 3>>>>, bids |-> <<<<50, 2>>, <<48, 1>>, <<45, 3>>>>]
UnsortedBook == [asks |-> <<<<50, 1>>, <<60, 1>>, <<40, 10>>>>, bids |-> <<<<50, 1>>, <<40, 1>>, <<60, 10>>>>]
MonotoneBooks == {DeepBook, ThinBook, LongBook, SteppedBook, UnsortedBook}
MonotoneSizes == {1, 3, 5, 8, 100, 150, 317, 1000}
MaxSlippageInputs == {<<0, 1>>, <<1, 1000>>, <<1, 100>>, <<1, 50>>, <<1, 5>>}
SlippageInputs == {<<0, 1>>, <<3, 250>>, <<13, 1000>>, <<7, 500>>, <<1, 50>>, <<21, 1000>>, <<1, 1>>}
ProfitInputs == {<<0, 1>>, <<1, 500>>, <<3, 200>>, <<11, 500>>, <<1, 2>>}
\* SpecFlow: seconds between handlers; the trades fed, `age` being how far the
\* trade's timestamp lies behind the clock when it is added (the last one has no price)
FlowTickSeconds == {15}
TradeInputs == <<
    [side |-> "buy", amount |-> 800, price |-> 150, age |-> 0],
    [side |-> "sell", amount |-> 800, price |-> 150, age |-> 0],
    [side |-> "buy", amount |-> 200, price |-> 150, age |-> 0],
    [side |-> "sell", amount |-> 200, price |-> 150, age |-> 0],
    [side |-> "sell", amount |-> 200, price |-> 150, age |-> 40],
    [side |-> "buy", amount |-> 800, age |-> 0] >>
\* SpecDetect: seconds between handlers, the trades fed (of TradeInputs) and the type
\* of the raw signals sent to the aggregator
DetectTickSeconds == {30}
DetectTradeInputs == {1, 2}
DetectSignalTypes == {"BUY"}
\* SpecLiquidity: seconds between handlers, the readings fed (total_liquidity in units
\* of 5,000: 5,000 and 1,000,000 to 1,500,000) and how far a reading's timestamp lies
\* behind the clock when it is added
LiqTickSeconds == {30}
LiquidityLevels == {1, 200, 220, 240, 260, 300}
LiquidityAges == {0, 1, 2}
\* candidate trades: altcoin flag, order book, size, side, predicted profit
Quotes == <<
    [is_altcoin |-> TRUE, orderbook |-> NoBook, trade_size |-> 300, trade_side |-> "BUY",
     predicted_profit |-> <<3, 200>>],
    [is_altcoin |-> TRUE, orderbook |-> EmptySidesBook, trade_size |-> 300, trade_side |-> "BUY",
     predicted_profit |-> <<1, 2>>],
    [is_altcoin |-> TRUE, orderbook |-> ZeroQuantityBook, trade_size |-> 5, trade_side |-> "SELL",
     predicted_profit |-> <<3, 200>>],
    [is_altcoin |-> TRUE, orderbook |-> DeepBook, trade_size |-> 300, trade_side |-> "BUY",
     predicted_profit |-> <<3, 200>>],
    [is_altcoin |-> FALSE, orderbook |-> DeepBook, trade_size |-> 5, trade_side |-> "SELL",
     predicted_profit |-> <<3, 200>>],
    [is_altcoin |-> TRUE, orderbook |-> DeepBook, trade_size |-> 300, trade_side |-> "BUY",
     predicted_profit |-> <<0, 1>>],
    [is_altcoin |-> TRUE, orderbook |-> ThinBook, trade_size |-> 300, trade_side |-> "BUY",
     predicted_profit |-> <<1, 2>>] >>

\* latency.py: the component under study, two more weighted components and one
\* that component_weights does not list
StudiedComponent == "data_acquisition"

LatencyComponents == {"data_acquisition", "database_write", "network", "disk"}

LatencyInputs(component) == IF component = StudiedComponent THEN {10, 250} ELSE IF component = "database_write" THEN {10, 60} ELSE {10}

ThresholdTypes == {"order_flow", "liquidity", "volume_price"}
\* SpecSticky: latencies of the low, medium and critical band; clear_history's argument
\* is omitted (None, written <<>>)
StickyLatencies == {10, 60, 250}
ClearedComponents == {<<>>}

\* volume_price.py: seconds between handlers, and the statistics of a window that is
\* long enough: correlations in percent, volume increases in tenths, price
\* stabilities in units of 0.0001
VpTickSeconds == {90}
CorrelationLevels == {-50, -30, 0, 30, 50}
VolumeIncreaseLevels == {10, 20}
PriceStabilityLevels == {50, 60}
PrunedPoints == {0, 1}

\* SpecIsolation: two symbols fed the same way: one trade, readings in timestamp
\* order (200 one second ago, then 300), one raw signal type, two cooldown requests
IsolationSymbols == {"SOL", "AVAX"}
IsolationReadings == << [total_liquidity |-> 200, age |-> 1], [total_liquidity |-> 300, age |-> 0] >>
IsolationCooldownMinutes == {<<>>, <<1>>}

\* SpecRace: the threads calling add_algorithm_signal, and the seconds between steps
Threads == {1, 2}
RaceTickSeconds == {150}
RaceAlgorithmSignals == {<<"order_flow", 80>>, <<"liquidity", 70>>, <<"volume_price", 60>>}

\* SpecSamples: seconds between handlers; the trades fed (a sound one, one without a
\* price, one of amount 0, one priced 0, one stamped 10 s back) and the readings fed
\* (a sound one, one without a timestamp, one stamped 10 s back)
SampleTickSeconds == {15}
SampleTrades == <<
    [side |-> "buy", amount |-> 800, price |-> 150, age |-> 0],
    [side |-> "buy", amount |-> 800, age |-> 0],
    [side |-> "buy", amount |-> 0, price |-> 150, age |-> 0],
    [side |-> "sell", amount |-> 800, price |-> 0, age |-> 0],
    [side |-> "sell", amount |-> 200, price |-> 150, age |-> 10] >>
SampleReadings == <<
    [total_liquidity |-> 200, timestamp |-> 0],
    [total_liquidity |-> 200],
    [total_liquidity |-> 220, timestamp |-> -10] >>

\* SpecPipeline: seconds between handlers; the trades fed (one that fires alone, of
\* either side), the readings fed (200 one second ago, then a fall or a rise), the
\* correlations of the full volume-price windows, and the detectors with the
\* confidences the pipeline forwards their signals with
PipeTickSeconds == {15}
PipeTrades == {[side |-> "buy", amount |-> 1600, price |-> 150, age |-> 0], [side |-> "sell", amount |-> 1600, price |-> 150, age |-> 0]}
PipeFirstReading == [total_liquidity |-> 200, age |-> 1]
PipeSecondReadings == {[total_liquidity |-> 100, age |-> 0], [total_liquidity |-> 300, age |-> 0]}
PipeCorrelations == {-50, 0, 50}
PipeDetectors == {<<"is_signal_triggered", "order_flow", 80>>, <<"liquidity_is_signal_triggered", "liquidity", 70>>, <<"vp_is_signal_triggered", "volume_price", 60>>}

\* SpecPaper: the symbols traded, the prices signals and market updates carry, the
\* confidences of BUY signals, and the values abs(np.random.normal(0, 0.001)) takes
PaperSymbols == {"SOL/USDT", "AVAX/USDT"}
PaperPrices == {140, 150, 160}
PaperConfidences == {<<1, 2>>, <<9, 10>>}
PaperSlippages == {<<0, 1>>, <<1, 1000>>}
PaperSignalTypes == {"BUY", "SELL", "HOLD"}
\* SpecOverdraw: the prices of the signals, and the market prices at which a
\* holding bought for a tenth of the portfolio comes to outweigh the cash nine to
\* one; the signals carry a confidence of 0.9
OverdrawPrices == {100, 1000}
OverdrawMarketPrices == {1000, 80901}
OverdrawSignalTypes == {"BUY", "HOLD"}
OverdrawConfidence == <<9, 10>>

----------------------------------------------------------------------------
(* Helpers *)

EmptyDict == [k \in {} |-> 0]

DictSet(d, k, v) == [x \in (DOMAIN d) \cup {k} |-> IF x = k THEN v ELSE d[x]]

DictDel(d, k) == [x \in (DOMAIN d) \ {k} |-> d[x]]

\* the entry of a dict for a key: <<>> when the key is absent
Entry(d, k) == IF k \in DOMAIN d THEN <<d[k]>> ELSE <<>>

Max(a, b) == IF a >= b THEN a ELSE b

Min(a, b) == IF a <= b THEN a ELSE b

RECURSIVE GCD(_, _)
GCD(a, b) == IF b = 0 THEN a ELSE GCD(b, a % b)

\* a rational n/d (d > 0) in lowest terms
Frac(n, d) == LET g == GCD(n, d) IN IF g = 0 THEN <<0, 1>> ELSE <<n \div g, d \div g>>

RECURSIVE SumSeq(_)
SumSeq(q) == IF q = <<>> THEN 0 ELSE Head(q) + SumSeq(Tail(q))

MapSeq(q, F(_)) == [i \in DOMAIN q |-> F(q[i])]

OpRecInfo(op, symbol, kind, ok, info) ==
    [op |-> op, symbol |-> symbol, kind |-> kind, ok |-> ok, info |-> info]

OpRec(op, symbol, kind, ok) == OpRecInfo(op, symbol, kind, ok, <<>>)

----------------------------------------------------------------------------
(* SignalAggregator, src/src/algorithms/signal_aggregator.py *)

confirmation_threshold == 2
signal_window_seconds == 30
agg_cooldown_period == 300

\* algorithm_weights.get(algorithm_name, 1.0), in tenths
AlgorithmWeight(a) ==
    CASE a = "order_flow" -> 10
      [] a = "liquidity" -> 10
      [] a = "volume_price" -> 8
      [] OTHER -> 10

\* the mutant of AggIsInCooldown: no cooldown is seen
AggIsInCooldownNever(s) == FALSE

\* _is_in_cooldown(symbol)
AggIsInCooldown(s) ==
    IF s \notin DOMAIN agg_symbol_cooldowns THEN FALSE
    ELSE now < agg_symbol_cooldowns[s]

\* the mutant of CleanOldSignals: a signal exactly as old as the window is kept
CleanOldSignalsInclusive(recent, s) ==
    IF s \notin DOMAIN recent THEN recent
    ELSE LET cutoff_time == now - signal_window_seconds
             kept == SelectSeq(recent[s], LAMBDA sig : sig.timestamp >= cutoff_time)
         IN IF kept = <<>> THEN DictDel(recent, s) ELSE DictSet(recent, s, kept)

\* _clean_old_signals: keep the signals newer than the cutoff, drop an empty entry
CleanOldSignals(recent, s) ==
    IF s \notin DOMAIN recent THEN recent
    ELSE LET cutoff_time == now - signal_window_seconds
             kept == SelectSeq(recent[s], LAMBDA sig : sig.timestamp > cutoff_time)
         IN IF kept = <<>> THEN DictDel(recent, s) ELSE DictSet(recent, s, kept)

\* the mutant of MatchingSignals: signals of every type count
MatchingSignalsOfAnyType(recent, s, signal_type) == recent[s]

\* matching_signals of _check_confirmation
MatchingSignals(recent, s, signal_type) ==
    SelectSeq(recent[s], LAMBDA sig : sig.signal_type = signal_type)

AlgorithmsUsed(sigs) == {sigs[i].algorithm : i \in DOMAIN sigs}

\* the mutant of CalculateCombinedStrength: the time decay has no floor of 0.5
CalculateCombinedStrengthNoFloor(sigs) ==
    IF sigs = <<>> THEN <<0, 1>>
    ELSE LET decay(sig) == 2 * (signal_window_seconds - (now - sig.timestamp))
             eff(sig) == sig.weight * decay(sig)
             total_weighted_confidence == SumSeq(MapSeq(sigs, LAMBDA sig : sig.confidence * eff(sig)))
             total_weight == SumSeq(MapSeq(sigs, eff))
             unique_algorithms == Cardinality(AlgorithmsUsed(sigs))
             diversity_bonus == Min(20, (unique_algorithms - 1) * 10)
         IN IF total_weight = 0 THEN <<0, 1>>
            ELSE IF total_weighted_confidence + diversity_bonus * total_weight >= 100 * total_weight
                 THEN <<100, 1>>
                 ELSE Frac(total_weighted_confidence + diversity_bonus * total_weight, total_weight)

\* _calculate_combined_strength, in percent, as an exact rational.
\* time_decay = max(0.5, 1 - age/window) is kept as max(window, 2*(window-age)) / (2*window)
CalculateCombinedStrength(sigs) ==
    IF sigs = <<>> THEN <<0, 1>>
    ELSE LET decay(sig) == Max(signal_window_seconds,
                               2 * (signal_window_seconds - (now - sig.timestamp)))
             eff(sig) == sig.weight * decay(sig)
             total_weighted_confidence == SumSeq(MapSeq(sigs, LAMBDA sig : sig.confidence * eff(sig)))
             total_weight == SumSeq(MapSeq(sigs, eff))
             unique_algorithms == Cardinality(AlgorithmsUsed(sigs))
             diversity_bonus == Min(20, (unique_algorithms - 1) * 10)
         IN IF total_weight = 0 THEN <<0, 1>>
            ELSE IF total_weighted_confidence + diversity_bonus * total_weight >= 100 * total_weight
                 THEN <<100, 1>>
                 ELSE Frac(total_weighted_confidence + diversity_bonus * total_weight, total_weight)

\* the mutant of CheckConfirmation: the algorithm-diversity test is missing
CheckConfirmationCountOnly(recent, s, signal_type) ==
    IF s \notin DOMAIN recent THEN FALSE
    ELSE Len(MatchingSignals(recent, s, signal_type)) >= confirmation_threshold

\* _check_confirmation: the boolean of the returned pair
CheckConfirmation(recent, s, signal_type) ==
    IF s \notin DOMAIN recent THEN FALSE
    ELSE LET matching_signals == MatchingSignals(recent, s, signal_type)
         IN IF Len(matching_signals) < confirmation_threshold THEN FALSE
            ELSE IF Cardinality(AlgorithmsUsed(matching_signals)) < confirmation_threshold THEN FALSE
            ELSE TRUE

\* _generate_combined_signal: the record appended to combined_signals
GenerateCombinedSignal(recent, s, signal_type) ==
    LET matching == MatchingSignals(recent, s, signal_type)
    IN [symbol |-> s,
        signal_type |-> signal_type,
        strength |-> CalculateCombinedStrength(matching),
        timestamp |-> now,
        contributing_algorithms |-> MapSeq(matching, LAMBDA sig : sig.algorithm),
        algorithm_count |-> Cardinality(AlgorithmsUsed(matching))]

\* the mutant of AggCooldownExpiry: the cooldown lasts the confirmation window only
AggCooldownExpiryShort == now + signal_window_seconds

\* _set_cooldown: the expiry stored for the symbol
AggCooldownExpiry == now + agg_cooldown_period

\* the mutant of AddAlgorithmSignal: a signal submitted in cooldown is buffered
AddAlgorithmSignalBufferingInCooldown(s, signal_type, algorithm_name, confidence) ==
    LET signal_record == [signal_type |-> signal_type,
                          algorithm |-> algorithm_name,
                          confidence |-> confidence,
                          timestamp |-> now,
                          weight |-> AlgorithmWeight(algorithm_name)]
        old == IF s \in DOMAIN agg_recent_signals THEN agg_recent_signals[s] ELSE <<>>
        appended == DictSet(agg_recent_signals, s, Append(old, signal_record))
        recent == CleanOldSignals(appended, s)
        confirmed == ~AggIsInCooldown(s) /\ CheckConfirmation(recent, s, signal_type)
    IN /\ agg_recent_signals' = recent
       /\ agg_combined_signals' =
            IF confirmed
            THEN Append(agg_combined_signals, GenerateCombinedSignal(recent, s, signal_type))
            ELSE agg_combined_signals
       /\ agg_symbol_cooldowns' =
            IF confirmed
            THEN DictSet(agg_symbol_cooldowns, s, AggCooldownExpiry)
            ELSE agg_symbol_cooldowns
       /\ last_op' = OpRec("add_algorithm_signal", s, signal_type, confirmed)
       /\ UNCHANGED <<now, cdVars, mrVars, ofVars, lqVars, restVars>>

\* add_algorithm_signal(symbol, signal_type, algorithm_name, confidence)
AddAlgorithmSignal(s, signal_type, algorithm_name, confidence) ==
    IF AggIsInCooldown(s)
    THEN /\ last_op' = OpRec("add_algorithm_signal", s, signal_type, FALSE)
         /\ UNCHANGED <<now, aggVars, cdVars, mrVars, ofVars, lqVars, restVars>>
    ELSE LET signal_record == [signal_type |-> signal_type,
                               algorithm |-> algorithm_name,
                               confidence |-> confidence,
                               timestamp |-> now,
                               weight |-> AlgorithmWeight(algorithm_name)]
             old == IF s \in DOMAIN agg_recent_signals THEN agg_recent_signals[s] ELSE <<>>
             appended == DictSet(agg_recent_signals, s, Append(old, signal_record))
             recent == CleanOldSignals(appended, s)
             confirmed == CheckConfirmation(recent, s, signal_type)
         IN /\ agg_recent_signals' = recent
            /\ agg_combined_signals' =
                 IF confirmed
                 THEN Append(agg_combined_signals, GenerateCombinedSignal(recent, s, signal_type))
                 ELSE agg_combined_signals
            /\ agg_symbol_cooldowns' =
                 IF confirmed
                 THEN DictSet(agg_symbol_cooldowns, s, AggCooldownExpiry)
                 ELSE agg_symbol_cooldowns
            /\ last_op' = OpRec("add_algorithm_signal", s, signal_type, confirmed)
            /\ UNCHANGED <<now, cdVars, mrVars, ofVars, lqVars, restVars>>

\* cleanup_expired_data: _clean_old_signals for every key, then drop the expired cooldowns
AggCleanupExpiredData ==
    LET fresh(s) == SelectSeq(agg_recent_signals[s],
                              LAMBDA sig : sig.timestamp > now - signal_window_seconds)
        expired_cooldowns == {s \in DOMAIN agg_symbol_cooldowns : now >= agg_symbol_cooldowns[s]}
    IN /\ agg_recent_signals' =
            [s \in {x \in DOMAIN agg_recent_signals : fresh(x) # <<>>} |-> fresh(s)]
       /\ agg_symbol_cooldowns' =
            [s \in (DOMAIN agg_symbol_cooldowns) \ expired_cooldowns |-> agg_symbol_cooldowns[s]]
       /\ last_op' = OpRec("cleanup_expired_data", "", "", FALSE)
       /\ UNCHANGED <<now, agg_combined_signals, cdVars, mrVars, ofVars, lqVars, restVars>>

----------------------------------------------------------------------------
(* add_algorithm_signal called from several threads. The method takes no    *)
(* lock, so a thread may be preempted between its statements; the steps     *)
(* kept apart are the cooldown check, the recording up to the generation of *)
(* the combined signal, and _set_cooldown.                                  *)

IdleCall == [pc |-> "idle", symbol |-> "", signal_type |-> "", algorithm |-> "", confidence |-> 0, raced |-> FALSE]

\* `if self._is_in_cooldown(symbol): return False`
CallCheckCooldown(c, s, signal_type, algorithm_name, confidence) ==
    /\ agg_calls[c].pc = "idle"
    /\ IF AggIsInCooldown(s)
       THEN /\ last_op' = OpRec("add_algorithm_signal", s, signal_type, FALSE)
            /\ UNCHANGED agg_calls
       ELSE /\ agg_calls' = [agg_calls EXCEPT ![c] = [pc |-> "passed", symbol |-> s, signal_type |-> signal_type, algorithm |-> algorithm_name, confidence |-> confidence, raced |-> FALSE]]
            /\ last_op' = OpRec("_is_in_cooldown", s, signal_type, FALSE)
    /\ UNCHANGED <<now, aggVars, cdVars, mrVars, ofVars, lqVars, ltVars, vpVars, ptVars>>

\* the signal record appended, _clean_old_signals, _check_confirmation and, when
\* confirmed, _generate_combined_signal
CallRecordAndConfirm(c) ==
    LET call == agg_calls[c]
        s == call.symbol
        signal_record == [signal_type |-> call.signal_type,
                          algorithm |-> call.algorithm,
                          confidence |-> call.confidence,
                          timestamp |-> now,
                          weight |-> AlgorithmWeight(call.algorithm)]
        old == IF s \in DOMAIN agg_recent_signals THEN agg_recent_signals[s] ELSE <<>>
        appended == DictSet(agg_recent_signals, s, Append(old, signal_record))
        recent == CleanOldSignals(appended, s)
        confirmed == CheckConfirmation(recent, s, call.signal_type)
        unset == \E d \in Threads \ {c} : agg_calls[d].pc = "confirmed" /\ agg_calls[d].symbol = s
    IN /\ call.pc = "passed"
       /\ agg_recent_signals' = recent
       /\ IF confirmed
          THEN /\ agg_combined_signals' = Append(agg_combined_signals, GenerateCombinedSignal(recent, s, call.signal_type))
               /\ agg_calls' = [agg_calls EXCEPT ![c].pc = "confirmed"]
               /\ last_op' = OpRecInfo("_generate_combined_signal", s, call.signal_type, TRUE, <<[raced |-> call.raced, unset |-> unset]>>)
          ELSE /\ UNCHANGED agg_combined_signals
               /\ agg_calls' = [agg_calls EXCEPT ![c] = IdleCall]
               /\ last_op' = OpRec("add_algorithm_signal", s, call.signal_type, FALSE)
       /\ UNCHANGED <<now, agg_symbol_cooldowns, cdVars, mrVars, ofVars, lqVars, ltVars, vpVars, ptVars>>

\* `self._set_cooldown(symbol); return True`. A thread that has passed the check for
\* the same symbol and not yet confirmed is marked: its check came before this set.
CallSetCooldown(c) ==
    LET s == agg_calls[c].symbol
    IN /\ agg_calls[c].pc = "confirmed"
       /\ agg_symbol_cooldowns' = DictSet(agg_symbol_cooldowns, s, AggCooldownExpiry)
       /\ agg_calls' = [d \in Threads |->
                           IF d = c THEN IdleCall
                           ELSE IF agg_calls[d].pc = "passed" /\ agg_calls[d].symbol = s
                                THEN [agg_calls[d] EXCEPT !.raced = TRUE]
                                ELSE agg_calls[d]]
       /\ last_op' = OpRec("add_algorithm_signal", s, agg_calls[c].signal_type, TRUE)
       /\ UNCHANGED <<now, agg_recent_signals, agg_combined_signals, cdVars, mrVars, ofVars, lqVars, ltVars, vpVars, ptVars>>

----------------------------------------------------------------------------
(* CooldownManager, src/src/risk/cooldown.py *)

\* the value the constructor gives default_cooldown_minutes
default_cooldown_minutes == 15
min_cooldown_minutes == 5
max_cooldown_minutes == 60
success_rate_window == 10
dynamic_adjustment == TRUE

\* history[-n:]
LastN(q, n) == IF Len(q) <= n THEN q ELSE SubSeq(q, Len(q) - n + 1, Len(q))

\* the mutant of RecentOutcomes: every recorded outcome counts
RecentOutcomesAll(history) == history

\* self.signal_history[symbol][-self.success_rate_window:]
RecentOutcomes(history) == LastN(history, success_rate_window)

\* _calculate_dynamic_cooldown for a base and a list of outcomes: minutes. The factors
\* 0.7, 0.85, 1.0, 1.5, 2.0 and int() are exact integer arithmetic (floor of a
\* non-negative product; the float product differs only for the bases 90, 170, 180)
DynamicCooldown(base_cooldown, history) ==
    IF history = <<>>
    THEN base_cooldown
    ELSE LET recent_signals == RecentOutcomes(history)
             n == Len(recent_signals)
             successful_signals == Cardinality({i \in DOMAIN recent_signals : recent_signals[i]})
             adjusted_cooldown ==
                 IF 10 * successful_signals >= 8 * n THEN (base_cooldown * 70) \div 100
                 ELSE IF 10 * successful_signals >= 6 * n THEN (base_cooldown * 85) \div 100
                 ELSE IF 10 * successful_signals >= 4 * n THEN base_cooldown
                 ELSE IF 10 * successful_signals >= 2 * n THEN (base_cooldown * 150) \div 100
                 ELSE base_cooldown * 2
         IN Max(min_cooldown_minutes, Min(max_cooldown_minutes, adjusted_cooldown))

\* the base duration of a symbol
BaseCooldown(s) ==
    IF s \in DOMAIN cd_symbol_specific_cooldowns THEN cd_symbol_specific_cooldowns[s]
    ELSE cd_default_cooldown_minutes

\* the outcomes recorded for a symbol
Outcomes(s) == IF s \in DOMAIN cd_signal_history THEN cd_signal_history[s] ELSE <<>>

\* _calculate_dynamic_cooldown(symbol)
CalculateDynamicCooldown(s) == DynamicCooldown(BaseCooldown(s), Outcomes(s))

\* the mutant of CooldownExpiry: the duration is taken as seconds
CooldownExpirySeconds(minutes) == now + minutes

\* set_cooldown: expiry_time = utcnow() + timedelta(minutes=minutes)
CooldownExpiry(minutes) == now + minutes * 60

\* set_cooldown(symbol, minutes): the minutes it settles on
SetCooldownMinutes(s, minutes) ==
    IF minutes = <<>>
    THEN IF dynamic_adjustment THEN CalculateDynamicCooldown(s)
         ELSE IF s \in DOMAIN cd_symbol_specific_cooldowns
              THEN cd_symbol_specific_cooldowns[s]
              ELSE cd_default_cooldown_minutes
    ELSE minutes[1]

\* the mutant of SetCooldownPeriods: every entry gets the new expiry
SetCooldownPeriodsOfAll(s, minutes) ==
    [x \in DOMAIN cd_cooldown_periods \cup {s} |-> CooldownExpiry(SetCooldownMinutes(s, minutes))]

\* set_cooldown(symbol, minutes): the new value of cooldown_periods
SetCooldownPeriods(s, minutes) ==
    DictSet(cd_cooldown_periods, s, CooldownExpiry(SetCooldownMinutes(s, minutes)))

\* is_in_cooldown(symbol): the returned boolean
IsInCooldownResult(s) ==
    IF s \notin DOMAIN cd_cooldown_periods THEN FALSE
    ELSE IF now >= cd_cooldown_periods[s] THEN FALSE
    ELSE IF now < cd_cooldown_periods[s] THEN TRUE
    ELSE FALSE

\* the mutant of IsInCooldownPeriods: the expired entry is left in place
IsInCooldownPeriodsKeep(s) == cd_cooldown_periods

\* another mutant of IsInCooldownPeriods: the entry is deleted whatever its expiry
IsInCooldownPeriodsDropAlways(s) == DictDel(cd_cooldown_periods, s)

\* is_in_cooldown(symbol): cooldown_periods after the call (an expired entry is deleted)
IsInCooldownPeriods(s) ==
    IF s \notin DOMAIN cd_cooldown_periods THEN cd_cooldown_periods
    ELSE IF now >= cd_cooldown_periods[s] THEN DictDel(cd_cooldown_periods, s)
    ELSE cd_cooldown_periods

SetCooldown(s, minutes) ==
    /\ cd_cooldown_periods' = SetCooldownPeriods(s, minutes)
    /\ cd_last_set' = DictSet(cd_last_set, s, [at |-> now, minutes |-> SetCooldownMinutes(s, minutes)])
    /\ last_op' = OpRec("set_cooldown", s, IF minutes = <<>> THEN "omitted" ELSE "given", FALSE)
    /\ UNCHANGED <<now, aggVars, mrVars, ofVars, lqVars, restVars, cd_signal_history, cd_symbol_specific_cooldowns, cd_default_cooldown_minutes>>

\* is_in_cooldown(symbol); the record of the call tells whether it follows at once on
\* another is_in_cooldown of the same symbol, and what that one answered
IsInCooldown(s) ==
    /\ cd_cooldown_periods' = IsInCooldownPeriods(s)
    /\ last_op' = OpRec("is_in_cooldown", s,
                        IF last_op.op = "is_in_cooldown" /\ last_op.symbol = s
                        THEN (IF last_op.ok THEN "after True" ELSE "after False")
                        ELSE "",
                        IsInCooldownResult(s))
    /\ UNCHANGED <<now, aggVars, mrVars, ofVars, lqVars, restVars, cd_signal_history, cd_symbol_specific_cooldowns, cd_default_cooldown_minutes, cd_last_set>>

\* record_signal_result(symbol, success, profit): only `success` is read again
RecordSignalResult(s, success) ==
    LET old == IF s \in DOMAIN cd_signal_history THEN cd_signal_history[s] ELSE <<>>
        max_history == success_rate_window * 3
    IN /\ cd_signal_history' = DictSet(cd_signal_history, s, LastN(Append(old, success), max_history))
       /\ last_op' = OpRec("record_signal_result", s, "", success)
       /\ UNCHANGED <<now, aggVars, mrVars, ofVars, lqVars, restVars, cd_cooldown_periods, cd_symbol_specific_cooldowns, cd_default_cooldown_minutes, cd_last_set>>

\* cleanup_expired_cooldowns
CleanupExpiredCooldowns ==
    LET expired_symbols == {s \in DOMAIN cd_cooldown_periods : now >= cd_cooldown_periods[s]}
    IN /\ cd_cooldown_periods' =
            [s \in (DOMAIN cd_cooldown_periods) \ expired_symbols |-> cd_cooldown_periods[s]]
       /\ last_op' = OpRec("cleanup_expired_cooldowns", "", "", FALSE)
       /\ UNCHANGED <<now, aggVars, mrVars, ofVars, lqVars, restVars, cd_signal_history, cd_symbol_specific_cooldowns, cd_default_cooldown_minutes, cd_last_set>>

\* set_symbol_cooldown(symbol, minutes): the custom base, clamped
SetSymbolCooldown(s, minutes) ==
    /\ cd_symbol_specific_cooldowns' =
           DictSet(cd_symbol_specific_cooldowns, s,
                   Max(min_cooldown_minutes, Min(max_cooldown_minutes, minutes)))
    /\ last_op' = OpRec("set_symbol_cooldown", s, "", FALSE)
    /\ UNCHANGED <<now, aggVars, mrVars, ofVars, lqVars, restVars, cd_cooldown_periods, cd_signal_history,
                   cd_default_cooldown_minutes, cd_last_set>>

\* update_parameters(default_cooldown_minutes=minutes): setattr, no clamping
UpdateDefaultCooldown(minutes) ==
    /\ cd_default_cooldown_minutes' = minutes
    /\ last_op' = OpRec("update_parameters", "", "default_cooldown_minutes", FALSE)
    /\ UNCHANGED <<now, aggVars, mrVars, ofVars, lqVars, restVars, cd_cooldown_periods, cd_signal_history,
                   cd_symbol_specific_cooldowns, cd_last_set>>

----------------------------------------------------------------------------
(* MarketRegimeFilter, src/src/risk/market_regime.py.                      *)
(* Volatilities are per mille (0.02 is 20). A price window is kept as its  *)
(* length and the volatility numpy computes from its prices: the value is  *)
(* an input chosen when the window changes.                                *)

threshold_NORMAL == 50
threshold_VOLATILE == 100
threshold_HIGHLY_VOLATILE == 200
regime_persistence == 3
min_price_points == 10
price_window_maxlen == 1000

Regimes == {"CALM", "NORMAL", "VOLATILE", "HIGHLY_VOLATILE"}

\* calculate_volatility(symbol)
CalculateVolatility(windows, symbol) ==
    IF symbol \notin DOMAIN windows THEN 0
    ELSE IF windows[symbol].len < min_price_points THEN 0
    ELSE windows[symbol].vol

\* get_market_regime(btc_volatility, eth_volatility)
GetMarketRegime(btc_volatility, eth_volatility) ==
    LET max_volatility == Max(btc_volatility, eth_volatility)
    IN IF max_volatility >= threshold_HIGHLY_VOLATILE THEN "HIGHLY_VOLATILE"
       ELSE IF max_volatility >= threshold_VOLATILE THEN "VOLATILE"
       ELSE IF max_volatility >= threshold_NORMAL THEN "NORMAL"
       ELSE "CALM"

\* the mutant of ClassifiedRegime: while no window of the pair holds enough prices
\* there is no evaluation, the current regime is classified again
ClassifiedRegimeSkippingShortWindows(windows) ==
    IF \A s \in {"BTC", "BTCUSDT", "ETH", "ETHUSDT"} :
           s \in DOMAIN windows => windows[s].len < min_price_points
    THEN mr_current_regime
    ELSE LET vol_of(symbols) ==
                 LET present == {s \in symbols : s \in DOMAIN windows}
                 IN IF present = {} THEN 0
                    ELSE CHOOSE v \in {CalculateVolatility(windows, s) : s \in present} :
                             \A s \in present : v >= CalculateVolatility(windows, s)
         IN GetMarketRegime(vol_of({"BTC", "BTCUSDT"}), vol_of({"ETH", "ETHUSDT"}))

\* _update_market_regime: the regime classified from the windows
ClassifiedRegime(windows) ==
    LET vol_of(symbols) ==
            LET present == {s \in symbols : s \in DOMAIN windows}
            IN IF present = {} THEN 0
               ELSE CHOOSE v \in {CalculateVolatility(windows, s) : s \in present} :
                        \A s \in present : v >= CalculateVolatility(windows, s)
    IN GetMarketRegime(vol_of({"BTC", "BTCUSDT"}), vol_of({"ETH", "ETHUSDT"}))

\* the mutant of RegimePersistence: an evaluation that classifies the current
\* regime does not reset the pending candidate
RegimePersistenceNoReset(new_regime) ==
    IF new_regime # mr_current_regime
    THEN LET pending == new_regime
             confirmations == IF mr_pending_regime = new_regime
                              THEN mr_regime_confirmations + 1 ELSE 1
         IN IF confirmations >= regime_persistence
            THEN [current |-> new_regime, pending |-> "None", confirmations |-> 0]
            ELSE [current |-> mr_current_regime, pending |-> pending,
                  confirmations |-> confirmations]
    ELSE [current |-> mr_current_regime, pending |-> mr_pending_regime,
          confirmations |-> mr_regime_confirmations]

\* the mutant of RegimePersistence: the regime changes one confirmation late
RegimePersistenceLateCommit(new_regime) ==
    IF new_regime # mr_current_regime
    THEN LET pending == new_regime
             confirmations == IF mr_pending_regime = new_regime
                              THEN mr_regime_confirmations + 1 ELSE 1
         IN IF confirmations > regime_persistence
            THEN [current |-> new_regime, pending |-> "None", confirmations |-> 0]
            ELSE [current |-> mr_current_regime, pending |-> pending,
                  confirmations |-> confirmations]
    ELSE [current |-> mr_current_regime, pending |-> "None", confirmations |-> 0]

\* _update_market_regime: the regime persistence (hysteresis) step
RegimePersistence(new_regime) ==
    IF new_regime # mr_current_regime
    THEN LET pending == new_regime
             confirmations == IF mr_pending_regime = new_regime
                              THEN mr_regime_confirmations + 1 ELSE 1
         IN IF confirmations >= regime_persistence
            THEN [current |-> new_regime, pending |-> "None", confirmations |-> 0]
            ELSE [current |-> mr_current_regime, pending |-> pending,
                  confirmations |-> confirmations]
    ELSE [current |-> mr_current_regime, pending |-> "None", confirmations |-> 0]

\* add_price_data(symbol, price, timestamp): the append, _clean_old_data dropping
\* `pruned` points from the front, and for BTC/ETH the regime evaluation.
\* `vol` is the volatility of the window's prices after the insert.
AddPriceData(symbol, pruned, vol) ==
    LET old_len == IF symbol \in DOMAIN mr_price_windows THEN mr_price_windows[symbol].len ELSE 0
        appended == Min(old_len + 1, price_window_maxlen)
        new_len == appended - pruned
        windows == DictSet(mr_price_windows, symbol,
                           [len |-> new_len, vol |-> IF new_len < min_price_points THEN 0 ELSE vol])
    IN /\ pruned <= appended
       /\ mr_price_windows' = windows
       /\ IF symbol \in {"BTC", "BTCUSDT", "ETH", "ETHUSDT"}
          THEN LET new_regime == ClassifiedRegime(windows)
                   r == RegimePersistence(new_regime)
               IN /\ mr_current_regime' = r.current
                  /\ mr_pending_regime' = r.pending
                  /\ mr_regime_confirmations' = r.confirmations
                  /\ mr_streak' = IF mr_streak.regime = new_regime
                                  THEN [regime |-> new_regime, count |-> Min(mr_streak.count + 1, 4)]
                                  ELSE [regime |-> new_regime, count |-> 1]
                  /\ last_op' = OpRec("add_price_data", symbol, new_regime, TRUE)
          ELSE /\ UNCHANGED <<mr_current_regime, mr_pending_regime, mr_regime_confirmations,
                              mr_streak>>
               /\ last_op' = OpRec("add_price_data", symbol, "", FALSE)
       /\ UNCHANGED <<now, aggVars, cdVars, ofVars, lqVars, restVars>>

\* the mutant of ShouldFilterSignal: the pending candidate, when there is one, is
\* the regime the rules are looked up for
ShouldFilterSignalOfPending(is_altcoin) ==
    LET regime == IF mr_pending_regime # "None" THEN mr_pending_regime ELSE mr_current_regime
        filter_altcoins == regime \in {"VOLATILE", "HIGHLY_VOLATILE"}
        is_high_correlation_period == mr_current_regime \in {"VOLATILE", "HIGHLY_VOLATILE"}
    IN IF is_altcoin /\ filter_altcoins THEN TRUE
       ELSE IF regime \in {"VOLATILE", "HIGHLY_VOLATILE"} /\ is_altcoin /\ is_high_correlation_period
            THEN TRUE
       ELSE FALSE

\* should_filter_signal(symbol, regime=None, is_altcoin): the boolean of the pair
ShouldFilterSignal(is_altcoin) ==
    LET regime == mr_current_regime
        filter_altcoins == regime \in {"VOLATILE", "HIGHLY_VOLATILE"}
        is_high_correlation_period == mr_current_regime \in {"VOLATILE", "HIGHLY_VOLATILE"}
    IN IF is_altcoin /\ filter_altcoins THEN TRUE
       ELSE IF regime \in {"VOLATILE", "HIGHLY_VOLATILE"} /\ is_altcoin /\ is_high_correlation_period
            THEN TRUE
       ELSE FALSE

\* a call should_filter_signal(symbol, is_altcoin=...) with regime omitted
FilterSignal(symbol, is_altcoin) ==
    /\ last_op' = OpRec("should_filter_signal", symbol,
                        IF is_altcoin THEN "altcoin" ELSE "major", ShouldFilterSignal(is_altcoin))
    /\ UNCHANGED <<now, aggVars, cdVars, mrVars, ofVars, lqVars, restVars>>

----------------------------------------------------------------------------
(* SlippageAnalyzer, src/src/risk/slippage.py.                             *)
(* Prices, quantities, sizes, slippages and profits are exact rationals    *)
(* <<numerator, denominator>> in lowest terms. An order book is a dict     *)
(* with the keys 'bids' and 'asks' (either may be absent), each a list of  *)
(* <<price, quantity>> levels, best first.                                 *)

RNum(n) == <<n, 1>>

RAdd(a, b) == Frac(a[1] * b[2] + b[1] * a[2], a[2] * b[2])

RSub(a, b) == Frac(a[1] * b[2] - b[1] * a[2], a[2] * b[2])

RMul(a, b) == Frac(a[1] * b[1], a[2] * b[2])

\* a / b for b > 0
RDiv(a, b) == Frac(a[1] * b[2], a[2] * b[1])

RLt(a, b) == a[1] * b[2] < b[1] * a[2]

RLe(a, b) == a[1] * b[2] <= b[1] * a[2]

RMin(a, b) == IF RLe(a, b) THEN a ELSE b

RMax(a, b) == IF RLe(b, a) THEN a ELSE b

max_slippage_threshold == <<1, 50>>         \* 0.02
min_profit_after_slippage == <<1, 1000>>    \* 0.001
transaction_fee_rate == <<1, 1000>>         \* 0.001

\* _calculate_vwap: the loop over the levels. For BUY remaining_size counts quote
\* currency, for SELL it counts base currency. A BUY level priced 0 raises
\* ZeroDivisionError in max_fillable_value / price.
RECURSIVE VwapLoop(_, _, _)
VwapLoop(orders, trade_side, acc) ==
    IF orders = <<>> \/ RLe(acc.remaining_size, RNum(0)) THEN acc
    ELSE IF trade_side = "BUY" /\ Head(orders)[1] = 0 THEN [acc EXCEPT !.raised = TRUE]
    ELSE LET price == RNum(Head(orders)[1])
             quantity == RNum(Head(orders)[2])
             order_value == RMul(price, quantity)
             max_fillable_value ==
                 IF trade_side = "BUY" THEN RMin(acc.remaining_size, order_value)
                 ELSE RMul(RMin(acc.remaining_size, quantity), price)
             fillable_quantity ==
                 IF trade_side = "BUY" THEN RDiv(max_fillable_value, price)
                 ELSE RMin(acc.remaining_size, quantity)
         IN VwapLoop(Tail(orders), trade_side,
                     [total_cost |-> RAdd(acc.total_cost, max_fillable_value),
                      total_quantity |-> RAdd(acc.total_quantity, fillable_quantity),
                      remaining_size |-> RSub(acc.remaining_size,
                                              IF trade_side = "BUY" THEN max_fillable_value
                                              ELSE fillable_quantity),
                      available_liquidity |-> RAdd(acc.available_liquidity, order_value),
                      raised |-> FALSE])

\* the mutant of CalculateVwapOfSize: the levels are walked from the last one
CalculateVwapOfSizeFromLastLevel(orders, trade_size, trade_side) ==
    LET t == VwapLoop([i \in 1..Len(orders) |-> orders[Len(orders) + 1 - i]], trade_side,
                      [total_cost |-> RNum(0), total_quantity |-> RNum(0),
                       remaining_size |-> trade_size, available_liquidity |-> RNum(0),
                       raised |-> FALSE])
    IN IF t.raised
       THEN [vwap |-> RNum(0), filled_amount |-> RNum(0), available_liquidity |-> RNum(0),
             partial_fill |-> TRUE, error |-> "division by zero"]
       ELSE IF t.total_quantity = RNum(0)
       THEN [vwap |-> RNum(0), filled_amount |-> RNum(0),
             available_liquidity |-> t.available_liquidity, partial_fill |-> TRUE,
             error |-> "Insufficient liquidity"]
       ELSE [vwap |-> RDiv(t.total_cost, t.total_quantity),
             filled_amount |-> IF trade_side = "BUY" THEN t.total_cost ELSE t.total_quantity,
             available_liquidity |-> t.available_liquidity,
             partial_fill |-> RLt(<<1, 1000>>, t.remaining_size),
             error |-> "None"]

\* _calculate_vwap(orders, trade_size, trade_side); an exception is caught and
\* returned as the error
CalculateVwapOfSize(orders, trade_size, trade_side) ==
    LET t == VwapLoop(orders, trade_side,
                      [total_cost |-> RNum(0), total_quantity |-> RNum(0),
                       remaining_size |-> trade_size, available_liquidity |-> RNum(0),
                       raised |-> FALSE])
    IN IF t.raised
       THEN [vwap |-> RNum(0), filled_amount |-> RNum(0), available_liquidity |-> RNum(0),
             partial_fill |-> TRUE, error |-> "division by zero"]
       ELSE IF t.total_quantity = RNum(0)
       THEN [vwap |-> RNum(0), filled_amount |-> RNum(0),
             available_liquidity |-> t.available_liquidity, partial_fill |-> TRUE,
             error |-> "Insufficient liquidity"]
       ELSE [vwap |-> RDiv(t.total_cost, t.total_quantity),
             filled_amount |-> IF trade_side = "BUY" THEN t.total_cost ELSE t.total_quantity,
             available_liquidity |-> t.available_liquidity,
             partial_fill |-> RLt(<<1, 1000>>, t.remaining_size),
             error |-> "None"]

\* _calculate_vwap for a whole-number trade_size
CalculateVwap(orders, trade_size, trade_side) ==
    CalculateVwapOfSize(orders, RNum(trade_size), trade_side)

\* calculate_slippage(orderbook, trade_size, trade_side): the returned dict
\* (`not orderbook` holds for None and for the empty dict); a best price of 0 raises
\* ZeroDivisionError in the slippage percentage, which the handler catches
CalculateSlippageOfSize(orderbook, trade_size, trade_side) ==
    IF DOMAIN orderbook = {} \/ RLe(trade_size, RNum(0))
    THEN [estimated_slippage |-> RNum(0), error |-> "Invalid input"]
    ELSE LET side_name == IF trade_side = "BUY" THEN "asks" ELSE "bids"
             orders == IF side_name \in DOMAIN orderbook THEN orderbook[side_name] ELSE <<>>
         IN IF orders = <<>>
            THEN [estimated_slippage |-> RNum(1), error |-> "No " \o side_name \o " in order book"]
            ELSE LET vwap_result == CalculateVwapOfSize(orders, trade_size, trade_side)
                     market_price == RNum(orders[1][1])
                     execution_price == vwap_result.vwap
                     slippage == RMax(RNum(0),
                                      IF trade_side = "BUY"
                                      THEN RDiv(RSub(execution_price, market_price), market_price)
                                      ELSE RDiv(RSub(market_price, execution_price), market_price))
                 IN IF vwap_result.error # "None"
                    THEN [estimated_slippage |-> RNum(1), error |-> vwap_result.error,
                          available_liquidity |-> vwap_result.available_liquidity]
                    ELSE IF orders[1][1] = 0
                    THEN [estimated_slippage |-> RNum(1), error |-> "division by zero"]
                    ELSE [estimated_slippage |-> slippage,
                          total_cost |-> RAdd(slippage, transaction_fee_rate),
                          execution_price |-> execution_price,
                          market_price |-> market_price,
                          filled_amount |-> vwap_result.filled_amount,
                          available_liquidity |-> vwap_result.available_liquidity,
                          partial_fill |-> vwap_result.partial_fill,
                          error |-> "None"]

\* calculate_slippage for a whole-number trade_size
CalculateSlippage(orderbook, trade_size, trade_side) ==
    CalculateSlippageOfSize(orderbook, RNum(trade_size), trade_side)

\* the quote value of a list of levels
RECURSIVE TotalLiquidity(_)
TotalLiquidity(orders) ==
    IF orders = <<>> THEN 0
    ELSE Head(orders)[1] * Head(orders)[2] + TotalLiquidity(Tail(orders))

\* the mutant of EstimateMaxLiquidity: every level is counted
EstimateMaxLiquidityOfAllLevels(orders) == TotalLiquidity(orders)

\* _estimate_max_liquidity(orders)
EstimateMaxLiquidity(orders) == TotalLiquidity(SubSeq(orders, 1, Min(20, Len(orders))))

search_min_size == 100
search_max_iterations == 20
search_tolerance == <<1, 1000>>       \* 0.001
search_convergence == <<1, 100>>      \* 0.01

\* what one iteration of the binary search makes of st, from the slippage at mid_size
OptimalSizeAfter(max_slippage, st, mid_size, slippage_result) ==
    IF slippage_result.error # "None"
    THEN [st EXCEPT !.max_size = mid_size, !.iterations = @ + 1]
    ELSE IF RLe(slippage_result.estimated_slippage, RAdd(max_slippage, search_tolerance))
    THEN [st EXCEPT !.optimal_size = mid_size, !.min_size = mid_size, !.iterations = @ + 1]
    ELSE [st EXCEPT !.max_size = mid_size, !.iterations = @ + 1]

\* one iteration of the binary search: st after it, and whether the search goes on
\* (the slippage had an error, or the bounds are still 1% or more apart)
OptimalSizeStep(orderbook, max_slippage, trade_side, st) ==
    CHOOSE step \in
        { [after |-> after,
           continues |-> \/ slippage_result.error # "None"
                         \/ ~RLt(RDiv(RSub(after.max_size, after.min_size), after.max_size), search_convergence)] :
            <<slippage_result, after>> \in
                UNION { { <<r, OptimalSizeAfter(max_slippage, st, m, r)>> :
                              r \in {CalculateSlippageOfSize(orderbook, m, trade_side)} } :
                          m \in {RDiv(RAdd(st.min_size, st.max_size), RNum(2))} } } : TRUE

\* get_optimal_trade_size: the binary search, st holding min_size, max_size,
\* optimal_size and the number of iterations run
RECURSIVE OptimalSizeLoop(_, _, _, _)
OptimalSizeLoop(orderbook, max_slippage, trade_side, st) ==
    IF st.iterations = search_max_iterations THEN st
    ELSE CHOOSE result \in
             { IF step.continues THEN OptimalSizeLoop(orderbook, max_slippage, trade_side, step.after)
               ELSE step.after :
                 step \in {OptimalSizeStep(orderbook, max_slippage, trade_side, st)} } : TRUE

\* get_optimal_trade_size(orderbook, max_slippage, trade_side): the size returned and
\* the iterations the search ran
GetOptimalTradeSize(orderbook, max_slippage, trade_side) ==
    LET side_name == IF trade_side = "BUY" THEN "asks" ELSE "bids"
        orders == IF side_name \in DOMAIN orderbook THEN orderbook[side_name] ELSE <<>>
        max_size == RMul(RNum(EstimateMaxLiquidity(orders)), <<1, 2>>)
        none == [optimal_size |-> RNum(0), iterations |-> 0]
    IN IF DOMAIN orderbook = {} \/ RLe(max_slippage, RNum(0)) THEN none
       ELSE IF orders = <<>> THEN none
       ELSE IF RLt(max_size, RNum(search_min_size)) THEN none
       ELSE LET st == OptimalSizeLoop(orderbook, max_slippage, trade_side,
                                      [min_size |-> RNum(search_min_size), max_size |-> max_size,
                                       optimal_size |-> RNum(search_min_size), iterations |-> 0])
            IN [optimal_size |-> st.optimal_size, iterations |-> st.iterations]

\* two calls of calculate_slippage on one order book and side, the second for a
\* trade size at least as large, and their results
SlippageCallsOfTwoSizes(orderbook, smaller_size, larger_size, trade_side) ==
    /\ last_op' = OpRecInfo("calculate_slippage twice", "", trade_side, TRUE,
                            <<[orderbook |-> orderbook,
                               smaller_size |-> smaller_size, larger_size |-> larger_size,
                               of_smaller |-> CalculateSlippage(orderbook, smaller_size, trade_side),
                               of_larger |-> CalculateSlippage(orderbook, larger_size, trade_side)]>>)
    /\ UNCHANGED <<now, aggVars, cdVars, mrVars, ofVars, lqVars, restVars>>

\* a call get_optimal_trade_size(orderbook, max_slippage, trade_side) and its result
OptimalSizeCall(orderbook, max_slippage, trade_side) ==
    /\ last_op' = OpRecInfo("get_optimal_trade_size", "", trade_side, TRUE,
                            <<[orderbook |-> orderbook, max_slippage |-> max_slippage,
                               result |-> GetOptimalTradeSize(orderbook, max_slippage, trade_side)]>>)
    /\ UNCHANGED <<now, aggVars, cdVars, mrVars, ofVars, lqVars, restVars>>

\* the mutant of ShouldCancelSignal: a net profit equal to the minimum cancels
ShouldCancelSignalAtMinimum(estimated_slippage, predicted_profit) ==
    LET total_cost == RAdd(estimated_slippage, transaction_fee_rate)
        net_profit == RSub(predicted_profit, total_cost)
    IN IF RLt(max_slippage_threshold, estimated_slippage) THEN TRUE
       ELSE IF RLe(net_profit, min_profit_after_slippage) THEN TRUE
       ELSE FALSE

\* should_cancel_signal(estimated_slippage, predicted_profit)
ShouldCancelSignal(estimated_slippage, predicted_profit) ==
    LET total_cost == RAdd(estimated_slippage, transaction_fee_rate)
        net_profit == RSub(predicted_profit, total_cost)
    IN IF RLt(max_slippage_threshold, estimated_slippage) THEN TRUE
       ELSE IF RLt(net_profit, min_profit_after_slippage) THEN TRUE
       ELSE FALSE

\* a call calculate_slippage(orderbook, trade_size, trade_side) and the dict it returns
SlippageCall(orderbook, trade_size, trade_side) ==
    /\ last_op' = OpRecInfo("calculate_slippage", "", trade_side, TRUE,
                            <<[orderbook |-> orderbook, trade_size |-> trade_size,
                               result |-> CalculateSlippage(orderbook, trade_size, trade_side)]>>)
    /\ UNCHANGED <<now, aggVars, cdVars, mrVars, ofVars, lqVars, restVars>>

\* a call should_cancel_signal(estimated_slippage, predicted_profit) and its verdict
CancelCall(estimated_slippage, predicted_profit) ==
    /\ last_op' = OpRecInfo("should_cancel_signal", "", "",
                            ShouldCancelSignal(estimated_slippage, predicted_profit),
                            <<[estimated_slippage |-> estimated_slippage,
                               predicted_profit |-> predicted_profit]>>)
    /\ UNCHANGED <<now, aggVars, cdVars, mrVars, ofVars, lqVars, restVars>>

----------------------------------------------------------------------------
(* Decision gate: the composition of the four verdicts,                    *)
(* src/tests/test_algorithms_integration.py, test_complete_trading_decision *)

\* the mutant of FinalDecision: the cooldown verdict is not consulted
FinalDecisionIgnoringCooldown(combined_signal_generated, in_cooldown, should_filter, should_cancel) ==
    combined_signal_generated /\ ~should_filter /\ ~should_cancel

\* can_trade
FinalDecision(combined_signal_generated, in_cooldown, should_filter, should_cancel) ==
    combined_signal_generated /\ ~in_cooldown /\ ~should_filter /\ ~should_cancel

\* Steps 3 and 4 for a symbol: the three risk checks on the aggregator's verdict, the
\* final decision, and the cooldown an executed trade sets
TradingDecision(s, combined_signal_generated, is_altcoin, orderbook, trade_size, trade_side, predicted_profit) ==
    LET in_cooldown == IsInCooldownResult(s)
        checked_periods == IsInCooldownPeriods(s)
        should_filter == ShouldFilterSignal(is_altcoin)
        slippage_result == CalculateSlippage(orderbook, trade_size, trade_side)
        should_cancel == ShouldCancelSignal(slippage_result.estimated_slippage, predicted_profit)
        can_trade == FinalDecision(combined_signal_generated, in_cooldown, should_filter,
                                   should_cancel)
        minutes == SetCooldownMinutes(s, <<>>)
    IN /\ cd_cooldown_periods' = IF can_trade
                                 THEN DictSet(checked_periods, s, CooldownExpiry(minutes))
                                 ELSE checked_periods
       /\ cd_last_set' = IF can_trade
                         THEN DictSet(cd_last_set, s, [at |-> now, minutes |-> minutes])
                         ELSE cd_last_set
       /\ last_op' = OpRecInfo("trading_decision", s, slippage_result.error, can_trade,
                               <<[combined_signal_generated |-> combined_signal_generated,
                                  is_altcoin |-> is_altcoin,
                                  in_cooldown |-> in_cooldown,
                                  should_filter |-> should_filter,
                                  should_cancel |-> should_cancel,
                                  orderbook |-> orderbook,
                                  trade_size |-> trade_size,
                                  trade_side |-> trade_side,
                                  predicted_profit |-> predicted_profit,
                                  estimated_slippage |-> slippage_result.estimated_slippage]>>)
       /\ UNCHANGED <<now, aggVars, mrVars, ofVars, lqVars, restVars, cd_signal_history, cd_symbol_specific_cooldowns, cd_default_cooldown_minutes>>

----------------------------------------------------------------------------
(* OrderFlowAnalyzer, src/src/algorithms/order_flow.py.                    *)
(* A trade is a dict with the keys side, amount, price and timestamp.      *)

of_window_seconds == 30
imbalance_threshold == <<3, 5>>     \* 0.6
min_volume_threshold == 1000
of_cooldown_period == 60
trade_window_maxlen == 1000

\* _clean_old_trades: trades are dropped from the front while the front one is old
RECURSIVE CleanOldTrades(_)
CleanOldTrades(window) ==
    LET cutoff_time == now - of_window_seconds
    IN IF window # <<>> /\ Head(window).timestamp < cutoff_time
       THEN CleanOldTrades(Tail(window))
       ELSE window

\* add_trade(symbol, trade)
AddTrade(symbol, trade) ==
    LET window == IF symbol \in DOMAIN of_trade_windows THEN of_trade_windows[symbol] ELSE <<>>
        appended == IF Len(window) >= trade_window_maxlen THEN Append(Tail(window), trade)
                    ELSE Append(window, trade)
    IN /\ IF ~({"side", "amount", "price", "timestamp"} \subseteq DOMAIN trade)
          THEN /\ of_trade_windows' = DictSet(of_trade_windows, symbol, window)
               /\ last_op' = OpRec("add_trade", symbol, "", FALSE)
          ELSE /\ of_trade_windows' = DictSet(of_trade_windows, symbol, CleanOldTrades(appended))
               /\ last_op' = OpRec("add_trade", symbol, trade.side, TRUE)
       /\ UNCHANGED <<now, aggVars, cdVars, mrVars, lqVars, restVars, of_signal_cooldowns, of_last_fired>>

\* calculate_imbalance: the time-decayed volume of one side
RECURSIVE WeightedVolume(_, _)
WeightedVolume(window, side) ==
    IF window = <<>> THEN RNum(0)
    ELSE LET trade == Head(window)
             age_seconds == now - trade.timestamp
             decay_factor == RMax(<<1, 10>>, RSub(RNum(1), Frac(age_seconds, of_window_seconds)))
             weighted_amount == RMul(RNum(trade.amount), decay_factor)
         IN RAdd(IF trade.side = side THEN weighted_amount ELSE RNum(0),
                 WeightedVolume(Tail(window), side))

\* calculate_imbalance(symbol)
CalculateImbalance(symbol) ==
    IF symbol \notin DOMAIN of_trade_windows \/ of_trade_windows[symbol] = <<>> THEN RNum(0)
    ELSE LET buy_volume == WeightedVolume(of_trade_windows[symbol], "buy")
             sell_volume == WeightedVolume(of_trade_windows[symbol], "sell")
             total_volume == RAdd(buy_volume, sell_volume)
         IN IF total_volume = RNum(0) THEN RNum(0)
            ELSE RMax(RNum(-1), RMin(RNum(1), RDiv(RSub(buy_volume, sell_volume), total_volume)))

\* _get_window_volume(symbol): the amounts of the stored trades, undecayed
GetWindowVolume(symbol) ==
    IF symbol \notin DOMAIN of_trade_windows THEN 0
    ELSE LET Amount(trade) == trade.amount
         IN SumSeq(MapSeq(of_trade_windows[symbol], Amount))

\* the mutant of OFIsInCooldown: the aggregator's cooldown is consulted instead
OFIsInCooldownOfAggregator(symbol) ==
    IF symbol \notin DOMAIN agg_symbol_cooldowns THEN FALSE
    ELSE now < agg_symbol_cooldowns[symbol]

\* _is_in_cooldown(symbol)
OFIsInCooldown(symbol) ==
    IF symbol \notin DOMAIN of_signal_cooldowns THEN FALSE
    ELSE now < of_signal_cooldowns[symbol]

RAbs(a) == IF a[1] < 0 THEN <<-a[1], a[2]>> ELSE a

\* the mutant of ImbalanceTriggers: the threshold itself does not trigger
ImbalanceTriggersStrict(imbalance) == RLt(imbalance_threshold, RAbs(imbalance))

\* abs(imbalance) >= self.imbalance_threshold
ImbalanceTriggers(imbalance) == RLe(imbalance_threshold, RAbs(imbalance))

\* is_signal_triggered(symbol); on firing _record_signal (of_last_fired keeps the
\* time of the symbol's latest record in signal_history) and _set_cooldown
IsSignalTriggered(symbol) ==
    LET imbalance == CalculateImbalance(symbol)
        total_volume == GetWindowVolume(symbol)
        signal_type == IF RLt(RNum(0), imbalance) THEN "BUY" ELSE "SELL"
        fires == /\ ~OFIsInCooldown(symbol)
                 /\ ~(total_volume < min_volume_threshold)
                 /\ ImbalanceTriggers(imbalance)
    IN /\ IF fires
          THEN /\ of_last_fired' = DictSet(of_last_fired, symbol, now)
               /\ of_signal_cooldowns' = DictSet(of_signal_cooldowns, symbol, now + of_cooldown_period)
               /\ last_op' = OpRec("is_signal_triggered", symbol, signal_type, TRUE)
          ELSE /\ UNCHANGED <<of_last_fired, of_signal_cooldowns>>
               /\ last_op' = OpRec("is_signal_triggered", symbol, "None", FALSE)
       /\ UNCHANGED <<now, aggVars, cdVars, mrVars, lqVars, restVars, of_trade_windows>>

----------------------------------------------------------------------------
(* LiquidityAnalyzer, src/src/algorithms/liquidity.py.                      *)
(* total_liquidity is counted in units of 5,000 (1,000,000 is 200). Rates   *)
(* and accelerations are exact rationals. A DataFrame column is the         *)
(* sequence of its defined entries: the leading NaN rows of diff() are left *)
(* out, and pandas' ewm(span).mean() (adjust=True) gives the last row the   *)
(* average of the entries weighted by (1 - alpha)^age, alpha = 2/(span+1).  *)
(* The readings of a window have distinct timestamps and positive           *)
(* total_liquidity, so no time_diff or divisor is zero.                     *)

lq_window_seconds == 60
change_rate_threshold == <<1, 10>>          \* 0.1
acceleration_threshold == <<1, 20>>         \* 0.05
min_liquidity_threshold == 2                \* 10,000
lq_cooldown_period == 120
liquidity_window_maxlen == 500

\* _clean_old_data: pops from the front while the front reading is older than the window
RECURSIVE CleanOldData(_)
CleanOldData(window) ==
    IF window # <<>> /\ Head(window).timestamp < now - lq_window_seconds
    THEN CleanOldData(Tail(window))
    ELSE window

\* add_liquidity_data(symbol, liquidity_data)
AddLiquidityData(symbol, liquidity_data) ==
    LET window == IF symbol \in DOMAIN lq_liquidity_windows THEN lq_liquidity_windows[symbol] ELSE <<>>
        appended == IF Len(window) >= liquidity_window_maxlen
                    THEN Append(Tail(window), liquidity_data)
                    ELSE Append(window, liquidity_data)
    IN /\ IF ~({"total_liquidity", "timestamp"} \subseteq DOMAIN liquidity_data)
          THEN /\ lq_liquidity_windows' = DictSet(lq_liquidity_windows, symbol, window)
               /\ last_op' = OpRec("add_liquidity_data", symbol, "", FALSE)
          ELSE /\ lq_liquidity_windows' = DictSet(lq_liquidity_windows, symbol, CleanOldData(appended))
               /\ last_op' = OpRec("add_liquidity_data", symbol, "", TRUE)
       /\ UNCHANGED <<now, aggVars, cdVars, mrVars, ofVars, restVars, lq_signal_cooldowns, lq_last_fired>>

\* df.sort_values('timestamp')
RECURSIVE SortValuesByTimestamp(_)
SortValuesByTimestamp(data) ==
    IF data = <<>> THEN <<>>
    ELSE LET first == CHOOSE i \in DOMAIN data :
                          \A j \in DOMAIN data :
                              \/ data[i].timestamp < data[j].timestamp
                              \/ (data[i].timestamp = data[j].timestamp /\ i <= j)
             rest == [k \in 1..(Len(data) - 1) |-> IF k < first THEN data[k] ELSE data[k + 1]]
         IN <<data[first]>> \o SortValuesByTimestamp(rest)

\* df['time_diff'] of row j + 1 (rows count from 1)
TimeDiff(df, j) == df[j + 1].timestamp - df[j].timestamp

\* df['change_rate']: liquidity_pct_change / time_diff, rows 2 and up
ChangeRateColumn(df) ==
    [j \in 1..(Len(df) - 1) |->
        Frac(df[j + 1].total_liquidity - df[j].total_liquidity,
             df[j].total_liquidity * TimeDiff(df, j))]

\* df['acceleration']: rate_diff / time_diff, rows 3 and up
AccelerationColumn(df) ==
    LET change_rate == ChangeRateColumn(df)
    IN [j \in 1..(Len(df) - 2) |->
           RDiv(RSub(change_rate[j + 1], change_rate[j]), RNum(TimeDiff(df, j + 1)))]

\* the weighted sum of ewm: the entries weighted by decay^age
RECURSIVE EwmSum(_, _)
EwmSum(column, decay) ==
    IF column = <<>> THEN RNum(0)
    ELSE RAdd(RMul(decay, EwmSum(SubSeq(column, 1, Len(column) - 1), decay)),
              column[Len(column)])

\* column.ewm(span).mean().iloc[-1], decay being 1 - 2/(span + 1)
EwmMeanLast(column, decay) ==
    RDiv(EwmSum(column, decay), EwmSum([j \in DOMAIN column |-> RNum(1)], decay))

\* calculate_liquidity_change_rate(symbol)
CalculateLiquidityChangeRate(symbol) ==
    IF symbol \notin DOMAIN lq_liquidity_windows THEN RNum(0)
    ELSE IF Len(lq_liquidity_windows[symbol]) < 2 THEN RNum(0)
    ELSE EwmMeanLast(ChangeRateColumn(SortValuesByTimestamp(lq_liquidity_windows[symbol])),
                     <<2, 3>>)

\* calculate_liquidity_acceleration(symbol)
CalculateLiquidityAcceleration(symbol) ==
    IF symbol \notin DOMAIN lq_liquidity_windows THEN RNum(0)
    ELSE IF Len(lq_liquidity_windows[symbol]) < 3 THEN RNum(0)
    ELSE EwmMeanLast(AccelerationColumn(SortValuesByTimestamp(lq_liquidity_windows[symbol])),
                     <<1, 2>>)

\* _meets_liquidity_threshold(symbol): the reading appended last
MeetsLiquidityThreshold(symbol) ==
    IF symbol \notin DOMAIN lq_liquidity_windows THEN FALSE
    ELSE LET window == lq_liquidity_windows[symbol]
         IN IF window = <<>> THEN FALSE
            ELSE window[Len(window)].total_liquidity >= min_liquidity_threshold

\* _is_in_cooldown(symbol)
LqIsInCooldown(symbol) ==
    IF symbol \notin DOMAIN lq_signal_cooldowns THEN FALSE
    ELSE now < lq_signal_cooldowns[symbol]

\* is_signal_triggered(symbol); on firing _record_signal (lq_last_fired keeps the
\* time of the symbol's latest record in signal_history) and _set_cooldown
LqIsSignalTriggered(symbol) ==
    LET change_rate == CalculateLiquidityChangeRate(symbol)
        acceleration == CalculateLiquidityAcceleration(symbol)
        rate_significant == RLe(change_rate_threshold, RAbs(change_rate))
        acceleration_significant == RLe(acceleration_threshold, RAbs(acceleration))
        signal_type == IF RLt(RNum(0), change_rate) \/ RLt(RNum(0), acceleration)
                       THEN "LIQUIDITY_INCREASE" ELSE "LIQUIDITY_DECREASE"
        fires == /\ ~LqIsInCooldown(symbol)
                 /\ MeetsLiquidityThreshold(symbol)
                 /\ (rate_significant \/ acceleration_significant)
    IN /\ IF fires
          THEN /\ lq_last_fired' = DictSet(lq_last_fired, symbol, now)
               /\ lq_signal_cooldowns' = DictSet(lq_signal_cooldowns, symbol, now + lq_cooldown_period)
               /\ last_op' = OpRec("liquidity_is_signal_triggered", symbol, signal_type, TRUE)
          ELSE /\ UNCHANGED <<lq_last_fired, lq_signal_cooldowns>>
               /\ last_op' = OpRec("liquidity_is_signal_triggered", symbol, "None", FALSE)
       /\ UNCHANGED <<now, aggVars, cdVars, mrVars, ofVars, restVars, lq_liquidity_windows>>

----------------------------------------------------------------------------
(* LatencyCompensationManager, src/src/risk/latency.py.                     *)
(* Latencies are whole milliseconds; factors, weights and thresholds are    *)
(* exact rationals. A measurement is kept as its latency: its timestamp is  *)
(* read by no handler modelled here. The manager is constructed with the    *)
(* base thresholds of the integration test.                                 *)

base_thresholds == [order_flow |-> <<3, 5>>, liquidity |-> <<1, 10>>]

latency_window == 100

recent_measurements == 20

trend_samples == 10

adjustment_factors == [low |-> <<1, 1>>, medium |-> <<6, 5>>, high |-> <<3, 2>>, critical |-> <<2, 1>>]

latency_thresholds == [low |-> 50, medium |-> 100, high |-> 200]

component_weights == [data_acquisition |-> <<1, 1>>, signal_processing |-> <<4, 5>>, database_write |-> <<3, 5>>, api_calls |-> <<7, 10>>, network |-> <<9, 10>>]

\* The order in which a dict iterates over the keys of component_weights.
ComponentOrder == <<"data_acquisition", "signal_processing", "database_write", "api_calls", "network">>

RECURSIVE InsertSorted(_, _)
InsertSorted(q, x) == IF q = <<>> THEN <<x>> ELSE IF x <= Head(q) THEN <<x>> \o q ELSE <<Head(q)>> \o InsertSorted(Tail(q), x)

RECURSIVE SortLatencies(_)
SortLatencies(q) == IF q = <<>> THEN <<>> ELSE InsertSorted(SortLatencies(Tail(q)), Head(q))

Mean(q) == Frac(SumSeq(q), Len(q))

\* np.percentile(latencies, 95): linear interpolation at position 0.95 * (n - 1).
Percentile95(latencies) ==
    LET a == SortLatencies(latencies)
        pos == 19 * (Len(a) - 1)
        lo == pos \div 20
        rest == pos % 20
    IN IF rest = 0 THEN RNum(a[lo + 1])
       ELSE RAdd(RNum(a[lo + 1]), RMul(Frac(rest, 20), RNum(a[lo + 2] - a[lo + 1])))

\* The mutant: no extra 10% for an upward trend.
CalculateLatencyAdjustmentWithoutTrend(history, component) ==
    IF component \notin DOMAIN history \/ history[component] = <<>> THEN RNum(1)
    ELSE LET latencies == LastN(history[component], recent_measurements)
             effective_latency == Percentile95(latencies)
         IN IF RLe(RNum(latency_thresholds.high), effective_latency) THEN adjustment_factors.critical
            ELSE IF RLe(RNum(latency_thresholds.medium), effective_latency) THEN adjustment_factors.high
            ELSE IF RLe(RNum(latency_thresholds.low), effective_latency) THEN adjustment_factors.medium
            ELSE adjustment_factors.low

CalculateLatencyAdjustment(history, component) ==
    IF component \notin DOMAIN history \/ history[component] = <<>> THEN RNum(1)
    ELSE LET latencies == LastN(history[component], recent_measurements)
             effective_latency == Percentile95(latencies)
             adjustment ==
                 IF RLe(RNum(latency_thresholds.high), effective_latency) THEN adjustment_factors.critical
                 ELSE IF RLe(RNum(latency_thresholds.medium), effective_latency) THEN adjustment_factors.high
                 ELSE IF RLe(RNum(latency_thresholds.low), effective_latency) THEN adjustment_factors.medium
                 ELSE adjustment_factors.low
             recent_half == LastN(latencies, 5)
             earlier_half == SubSeq(latencies, Len(latencies) - 9, Len(latencies) - 5)
         IN IF Len(latencies) >= trend_samples /\ RLt(RMul(Mean(earlier_half), <<6, 5>>), Mean(recent_half))
            THEN RMul(adjustment, <<11, 10>>)
            ELSE adjustment

RECURSIVE WeightedAdjustments(_, _)
WeightedAdjustments(history, components) ==
    IF components = <<>> THEN [total_weighted_adjustment |-> RNum(0), total_weight |-> RNum(0)]
    ELSE LET rest == WeightedAdjustments(history, Tail(components))
             component == Head(components)
             weight == component_weights[component]
         IN IF component \in DOMAIN history
            THEN [total_weighted_adjustment |-> RAdd(rest.total_weighted_adjustment, RMul(CalculateLatencyAdjustment(history, component), weight)),
                  total_weight |-> RAdd(rest.total_weight, weight)]
            ELSE rest

\* _check_threshold_adjustment up to its decision: whether an overall factor
\* exists, its value, and whether it is applied.
CheckThresholdDecision(t) ==
    LET overall_adjustment == IF t.total_weight = RNum(0) THEN RNum(1) ELSE RDiv(t.total_weighted_adjustment, t.total_weight)
    IN [weighted |-> t.total_weight # RNum(0),
        overall_adjustment |-> overall_adjustment,
        apply |-> t.total_weight # RNum(0) /\ RLt(<<1, 20>>, RAbs(RSub(overall_adjustment, RNum(1))))]

CheckThresholdAdjustment(history) == CheckThresholdDecision(WeightedAdjustments(history, ComponentOrder))

\* The mutant: the factor multiplies the thresholds in force.
ApplyThresholdAdjustmentsToCurrent(current, adjustment_factor) ==
    [t \in DOMAIN current \cup DOMAIN base_thresholds |->
        IF t \in DOMAIN base_thresholds THEN RMul(current[t], adjustment_factor) ELSE current[t]]

ApplyThresholdAdjustments(current, adjustment_factor) ==
    [t \in DOMAIN current \cup DOMAIN base_thresholds |->
        IF t \in DOMAIN base_thresholds THEN RMul(base_thresholds[t], adjustment_factor) ELSE current[t]]

AppendMeasurement(history, component, latency_ms) ==
    LET q == IF component \in DOMAIN history THEN history[component] ELSE <<>>
    IN DictSet(history, component, LastN(Append(q, latency_ms), latency_window))

\* the mutant of RecordLatency: a factor inside the 5% band puts the base thresholds back
RecordLatencyRestoring(component, latency_ms) ==
    \E history \in {AppendMeasurement(lt_latency_history, component, latency_ms)} :
        \E check \in {CheckThresholdAdjustment(history)} :
            /\ lt_latency_history' = history
            /\ IF check.apply
               THEN /\ lt_current_thresholds' = ApplyThresholdAdjustments(lt_current_thresholds, check.overall_adjustment)
                    /\ lt_threshold_adjustments' = lt_threshold_adjustments + 1
               ELSE /\ lt_current_thresholds' = base_thresholds
                    /\ UNCHANGED lt_threshold_adjustments
            /\ last_op' = OpRecInfo("record_latency", component, "", check.apply, <<[weighted |-> check.weighted, overall_adjustment |-> check.overall_adjustment, old_thresholds |-> lt_current_thresholds]>>)
            /\ UNCHANGED <<now, aggVars, cdVars, mrVars, ofVars, lqVars, vpVars, callVars, ptVars>>

\* record_latency(component, latency_ms)
RecordLatency(component, latency_ms) ==
    \E history \in {AppendMeasurement(lt_latency_history, component, latency_ms)} :
        \E check \in {CheckThresholdAdjustment(history)} :
            /\ lt_latency_history' = history
            /\ IF check.apply
               THEN /\ lt_current_thresholds' = ApplyThresholdAdjustments(lt_current_thresholds, check.overall_adjustment)
                    /\ lt_threshold_adjustments' = lt_threshold_adjustments + 1
               ELSE UNCHANGED <<lt_current_thresholds, lt_threshold_adjustments>>
            /\ last_op' = OpRecInfo("record_latency", component, "", check.apply, <<[weighted |-> check.weighted, overall_adjustment |-> check.overall_adjustment, old_thresholds |-> lt_current_thresholds]>>)
            /\ UNCHANGED <<now, aggVars, cdVars, mrVars, ofVars, lqVars, vpVars, callVars, ptVars>>

GetCurrentThreshold(threshold_type) ==
    LET base_threshold == IF threshold_type \in DOMAIN base_thresholds THEN base_thresholds[threshold_type] ELSE RNum(1)
        value == IF threshold_type \in DOMAIN lt_current_thresholds THEN lt_current_thresholds[threshold_type] ELSE base_threshold
    IN /\ last_op' = OpRecInfo("get_current_threshold", threshold_type, "", TRUE, <<[value |-> value]>>)
       /\ UNCHANGED <<now, aggVars, cdVars, mrVars, ofVars, lqVars, restVars>>

\* reset_thresholds(): current_thresholds becomes a copy of base_thresholds
ResetThresholds ==
    /\ lt_current_thresholds' = base_thresholds
    /\ last_op' = OpRec("reset_thresholds", "", "", TRUE)
    /\ UNCHANGED <<lt_latency_history, lt_threshold_adjustments>>
    /\ UNCHANGED <<now, aggVars, cdVars, mrVars, ofVars, lqVars, vpVars, callVars, ptVars>>

\* clear_history(component): one component's history is dropped, or with no
\* argument all history and the adjustment counter; the thresholds are not touched
ClearHistory(component) ==
    /\ lt_latency_history' = IF component = <<>> THEN EmptyDict ELSE DictDel(lt_latency_history, component[1])
    /\ lt_threshold_adjustments' = IF component = <<>> THEN 0 ELSE lt_threshold_adjustments
    /\ last_op' = OpRec("clear_history", IF component = <<>> THEN "" ELSE component[1], "", TRUE)
    /\ UNCHANGED lt_current_thresholds
    /\ UNCHANGED <<now, aggVars, cdVars, mrVars, ofVars, lqVars, vpVars, callVars, ptVars>>

----------------------------------------------------------------------------
(* VolumePriceAnalyzer, src/src/algorithms/volume_price.py.                 *)
(* A window is kept as its length and the statistic numpy computes from it; *)
(* the correlation pandas and scipy compute from a symbol's two windows is  *)
(* kept beside them. The values are inputs chosen when a window changes,    *)
(* and they are the functions' defaults while a window is too short.        *)
(* Correlations are in percent (0.3 is 30), volume increases in tenths      *)
(* (2.0 is 20), price stabilities in units of 0.0001 (0.005 is 50).         *)

vp_window_seconds == 120
correlation_threshold == 30
volume_multiplier_threshold == 20
price_stability_threshold == 50
vp_cooldown_period == 180
vp_window_maxlen == 500
min_correlation_points == 5
min_volume_points == 10
min_stability_points == 5
default_correlation == 0
default_volume_increase == 10
default_price_stability == 10000

WindowLen(windows, symbol) == IF symbol \in DOMAIN windows THEN windows[symbol].len ELSE 0

\* calculate_correlation(symbol) over the windows given
CalculateCorrelationOf(price_windows, volume_windows, symbol, correlation) ==
    IF symbol \notin DOMAIN price_windows \/ symbol \notin DOMAIN volume_windows THEN default_correlation
    ELSE IF price_windows[symbol].len < min_correlation_points \/ volume_windows[symbol].len < min_correlation_points
         THEN default_correlation
    ELSE correlation

\* calculate_correlation(symbol)
CalculateCorrelation(symbol) ==
    IF symbol \notin DOMAIN vp_price_windows \/ symbol \notin DOMAIN vp_volume_windows THEN default_correlation
    ELSE IF vp_price_windows[symbol].len < min_correlation_points \/ vp_volume_windows[symbol].len < min_correlation_points
         THEN default_correlation
    ELSE vp_correlations[symbol]

\* calculate_volume_increase(symbol)
CalculateVolumeIncrease(symbol) ==
    IF symbol \notin DOMAIN vp_volume_windows THEN default_volume_increase
    ELSE IF vp_volume_windows[symbol].len < min_volume_points THEN default_volume_increase
    ELSE vp_volume_windows[symbol].increase

\* calculate_price_stability(symbol)
CalculatePriceStability(symbol) ==
    IF symbol \notin DOMAIN vp_price_windows THEN default_price_stability
    ELSE IF vp_price_windows[symbol].len < min_stability_points THEN default_price_stability
    ELSE vp_price_windows[symbol].stability

\* add_price_data(symbol, price_data): the window is created before the validation;
\* a valid point is appended and _clean_old_price_data pops `pruned` points from
\* the front. `stability` and `correlation` are the statistics of the windows after.
VpAddPriceData(symbol, valid, pruned, stability, correlation) ==
    LET old_len == WindowLen(vp_price_windows, symbol)
        old_stability == IF symbol \in DOMAIN vp_price_windows THEN vp_price_windows[symbol].stability ELSE default_price_stability
        appended == Min(old_len + 1, vp_window_maxlen)
        new_len == appended - pruned
        windows == IF valid
                   THEN DictSet(vp_price_windows, symbol, [len |-> new_len, stability |-> IF new_len < min_stability_points THEN default_price_stability ELSE stability])
                   ELSE DictSet(vp_price_windows, symbol, [len |-> old_len, stability |-> old_stability])
    IN /\ pruned <= appended
       /\ vp_price_windows' = windows
       /\ vp_correlations' = IF valid
                             THEN DictSet(vp_correlations, symbol, CalculateCorrelationOf(windows, vp_volume_windows, symbol, correlation))
                             ELSE vp_correlations
       /\ last_op' = OpRec("vp_add_price_data", symbol, "", valid)
       /\ UNCHANGED <<now, aggVars, cdVars, mrVars, ofVars, lqVars, ltVars, callVars, ptVars, vp_volume_windows, vp_signal_cooldowns, vp_signal_history>>

\* add_volume_data(symbol, volume_data)
VpAddVolumeData(symbol, valid, pruned, increase, correlation) ==
    LET old_len == WindowLen(vp_volume_windows, symbol)
        old_increase == IF symbol \in DOMAIN vp_volume_windows THEN vp_volume_windows[symbol].increase ELSE default_volume_increase
        appended == Min(old_len + 1, vp_window_maxlen)
        new_len == appended - pruned
        windows == IF valid
                   THEN DictSet(vp_volume_windows, symbol, [len |-> new_len, increase |-> IF new_len < min_volume_points THEN default_volume_increase ELSE increase])
                   ELSE DictSet(vp_volume_windows, symbol, [len |-> old_len, increase |-> old_increase])
    IN /\ pruned <= appended
       /\ vp_volume_windows' = windows
       /\ vp_correlations' = IF valid
                             THEN DictSet(vp_correlations, symbol, CalculateCorrelationOf(vp_price_windows, windows, symbol, correlation))
                             ELSE vp_correlations
       /\ last_op' = OpRec("vp_add_volume_data", symbol, "", valid)
       /\ UNCHANGED <<now, aggVars, cdVars, mrVars, ofVars, lqVars, ltVars, callVars, ptVars, vp_price_windows, vp_signal_cooldowns, vp_signal_history>>

\* the mutant of VpIsInCooldown: no cooldown is seen
VpIsInCooldownNever(symbol) == FALSE

\* _is_in_cooldown(symbol)
VpIsInCooldown(symbol) ==
    IF symbol \notin DOMAIN vp_signal_cooldowns THEN FALSE
    ELSE now < vp_signal_cooldowns[symbol]

\* the mutant of VpSignalType: accumulation is decided by the correlation alone
VpSignalTypeByCorrelation(correlation, volume_increase, price_stability) ==
    IF (IF correlation < 0 THEN -correlation ELSE correlation) <= correlation_threshold THEN "ACCUMULATION"
    ELSE IF volume_increase >= volume_multiplier_threshold /\ correlation > correlation_threshold THEN "BREAKOUT"
    ELSE "None"

\* the pattern is_signal_triggered selects from the three statistics
VpSignalType(correlation, volume_increase, price_stability) ==
    LET is_accumulation == /\ volume_increase >= volume_multiplier_threshold
                           /\ price_stability <= price_stability_threshold
                           /\ (IF correlation < 0 THEN -correlation ELSE correlation) <= correlation_threshold
        is_distribution == /\ volume_increase >= volume_multiplier_threshold
                           /\ price_stability <= price_stability_threshold
                           /\ correlation < -correlation_threshold
        is_breakout == /\ volume_increase >= volume_multiplier_threshold
                       /\ correlation > correlation_threshold
    IN IF is_accumulation THEN "ACCUMULATION"
       ELSE IF is_distribution THEN "DISTRIBUTION"
       ELSE IF is_breakout THEN "BREAKOUT"
       ELSE "None"

\* is_signal_triggered(symbol); on firing _record_signal and _set_cooldown
VpIsSignalTriggered(symbol) ==
    LET correlation == CalculateCorrelation(symbol)
        volume_increase == CalculateVolumeIncrease(symbol)
        price_stability == CalculatePriceStability(symbol)
        signal_type == IF VpIsInCooldown(symbol) THEN "None" ELSE VpSignalType(correlation, volume_increase, price_stability)
        statistics == [in_cooldown |-> VpIsInCooldown(symbol), correlation |-> correlation, volume_increase |-> volume_increase, price_stability |-> price_stability]
    IN /\ IF signal_type # "None"
          THEN /\ vp_signal_history' = Append(vp_signal_history, [symbol |-> symbol, signal_type |-> signal_type, timestamp |-> now])
               /\ vp_signal_cooldowns' = DictSet(vp_signal_cooldowns, symbol, now + vp_cooldown_period)
          ELSE UNCHANGED <<vp_signal_history, vp_signal_cooldowns>>
       /\ last_op' = OpRecInfo("vp_is_signal_triggered", symbol, signal_type, signal_type # "None", <<statistics>>)
       /\ UNCHANGED <<now, aggVars, cdVars, mrVars, ofVars, lqVars, ltVars, callVars, ptVars, vp_price_windows, vp_volume_windows, vp_correlations>>

----------------------------------------------------------------------------
(* PaperTradingEngine, src/src/trading/paper_trading.py.                    *)
(* Money, prices and amounts are exact rationals. The engine is constructed *)
(* with the initial balance of the tests. The orders dict and the equity    *)
(* curve with its drawdown are reporting data the handlers below do not     *)
(* read; they are not part of the state.                                    *)

initial_balance == <<10000, 1>>
pt_transaction_fee == <<1, 1000>>       \* 0.001
max_position_size == <<1, 10>>          \* 0.1
min_position_fraction == <<1, 100>>     \* 0.01
kelly_scaling == <<1, 4>>               \* 0.25
default_predicted_reward == <<1, 50>>   \* 0.02
close_to_zero == <<1, 100000000>>       \* 1e-8

\* a * b, the common factors taken out before the products
PMul(a, b) ==
    LET g1 == GCD(IF a[1] < 0 THEN -a[1] ELSE a[1], b[2])
        g2 == GCD(IF b[1] < 0 THEN -b[1] ELSE b[1], a[2])
        h1 == IF g1 = 0 THEN 1 ELSE g1
        h2 == IF g2 = 0 THEN 1 ELSE g2
    IN Frac((a[1] \div h1) * (b[1] \div h2), (a[2] \div h2) * (b[2] \div h1))

\* a + b over the least common denominator
PAdd(a, b) ==
    LET g == GCD(a[2], b[2])
    IN Frac(a[1] * (b[2] \div g) + b[1] * (a[2] \div g), (a[2] \div g) * b[2])

PSub(a, b) == PAdd(a, <<-b[1], b[2]>>)

\* a / b for b > 0
PDiv(a, b) == PMul(a, <<b[2], b[1]>>)

\* _calculate_total_portfolio_value over the portfolio given
TotalPortfolioValueOf(balance, positions, market_prices) ==
    LET RECURSIVE Sum(_)
        Sum(S) == IF S = {} THEN RNum(0)
                  ELSE LET symbol == CHOOSE x \in S : TRUE
                       IN PAdd(PMul(positions[symbol], market_prices[symbol]), Sum(S \ {symbol}))
    IN PAdd(balance, Sum(DOMAIN positions \cap DOMAIN market_prices))

\* _calculate_total_portfolio_value()
CalculateTotalPortfolioValue == TotalPortfolioValueOf(pt_current_balance, pt_positions, pt_market_prices)

\* _calculate_position_size(predicted_reward, confidence) with the market prices given
CalculatePositionSize(predicted_reward, confidence, market_prices) ==
    LET win_prob == confidence
        loss_prob == RSub(RNum(1), confidence)
        avg_win == predicted_reward
        avg_loss == RMul(predicted_reward, <<1, 2>>)
        kelly == IF RLt(RNum(0), avg_loss)
                 THEN RDiv(RSub(RMul(win_prob, avg_win), RMul(loss_prob, avg_loss)), avg_win)
                 ELSE <<1, 10>>
        kelly_fraction == RMax(RMin(RMul(kelly, kelly_scaling), max_position_size), min_position_fraction)
    IN PMul(TotalPortfolioValueOf(pt_current_balance, pt_positions, market_prices), kelly_fraction)

\* _record_trade: the P&L of a SELL, read from the cost basis the portfolio given holds
RecordedPnl(side, symbol, fill_amount, fill_price, position_costs) ==
    IF side = "SELL" /\ symbol \in DOMAIN position_costs
    THEN PMul(fill_amount, PSub(fill_price, position_costs[symbol]))
    ELSE RNum(0)

\* _record_trade(order, signal); execute_signal calls it after _execute_order has
\* updated the portfolio, so position_costs is the dict after the update
TradeRecord(side, symbol, fill_amount, fill_price, position_costs) ==
    [symbol |-> symbol, side |-> side, amount |-> fill_amount, price |-> fill_price,
     pnl |-> RecordedPnl(side, symbol, fill_amount, fill_price, position_costs)]

\* execute_signal(signal) for a signal with all required fields: _create_order,
\* _execute_order with _update_portfolio (MARKET order), _record_trade.
\* `slippage` is abs(slippage_factor).
ExecuteSignal(symbol, signal_type, current_price, confidence, slippage) ==
    LET market_prices == DictSet(pt_market_prices, symbol, current_price)
        has_position == symbol \in DOMAIN pt_positions /\ RLt(RNum(0), pt_positions[symbol])
        amount == IF signal_type = "BUY"
                  THEN PDiv(CalculatePositionSize(default_predicted_reward, confidence, market_prices), current_price)
                  ELSE IF has_position THEN pt_positions[symbol] ELSE RNum(0)
        no_position == signal_type = "SELL" /\ ~has_position
        invalid == signal_type \notin {"BUY", "SELL"}
        required_balance == PMul(PMul(amount, current_price), PAdd(RNum(1), pt_transaction_fee))
        insufficient == signal_type = "BUY" /\ RLt(pt_current_balance, required_balance)
        fill_price == IF signal_type = "BUY"
                      THEN PMul(current_price, PAdd(RNum(1), slippage))
                      ELSE PMul(current_price, PSub(RNum(1), slippage))
        cost == PMul(PMul(amount, fill_price), PAdd(RNum(1), pt_transaction_fee))
        proceeds == PMul(PMul(amount, fill_price), PSub(RNum(1), pt_transaction_fee))
        old_position == IF symbol \in DOMAIN pt_positions THEN pt_positions[symbol] ELSE RNum(0)
        old_cost == IF symbol \in DOMAIN pt_position_costs THEN PMul(pt_position_costs[symbol], old_position) ELSE RNum(0)
        bought == PAdd(old_position, amount)
        bought_cost == IF symbol \in DOMAIN pt_positions
                       THEN (IF RLt(RNum(0), bought) THEN PDiv(PAdd(old_cost, cost), bought) ELSE RNum(0))
                       ELSE PMul(fill_price, PAdd(RNum(1), pt_transaction_fee))
        left == PSub(old_position, amount)
        closed == RLt(left, close_to_zero) /\ RLt(<<-1, 100000000>>, left)
        positions == IF signal_type = "BUY" THEN DictSet(pt_positions, symbol, bought)
                     ELSE IF closed THEN DictDel(pt_positions, symbol)
                     ELSE DictSet(pt_positions, symbol, left)
        position_costs == IF signal_type = "BUY" THEN DictSet(pt_position_costs, symbol, bought_cost)
                          ELSE IF closed THEN DictDel(pt_position_costs, symbol)
                          ELSE pt_position_costs
        balance == IF signal_type = "BUY" THEN PSub(pt_current_balance, cost) ELSE PAdd(pt_current_balance, proceeds)
    IN /\ pt_market_prices' = market_prices
       /\ IF no_position \/ invalid \/ insufficient
          THEN /\ UNCHANGED <<pt_current_balance, pt_positions, pt_position_costs, pt_trade_history>>
               /\ last_op' = OpRec("execute_signal", symbol, signal_type, FALSE)
          ELSE /\ pt_current_balance' = balance
               /\ pt_positions' = positions
               /\ pt_position_costs' = position_costs
               /\ pt_trade_history' = Append(pt_trade_history, TradeRecord(signal_type, symbol, amount, fill_price, position_costs))
               /\ last_op' = OpRecInfo("execute_signal", symbol, signal_type, TRUE, <<[cost_basis |-> Entry(pt_position_costs, symbol), fill_price |-> fill_price]>>)
       /\ UNCHANGED <<now, aggVars, cdVars, mrVars, ofVars, lqVars, ltVars, vpVars, callVars>>

\* _update_market_price(symbol, price)
UpdateMarketPrice(symbol, price) ==
    /\ pt_market_prices' = DictSet(pt_market_prices, symbol, price)
    /\ last_op' = OpRec("_update_market_price", symbol, "", TRUE)
    /\ UNCHANGED <<now, aggVars, cdVars, mrVars, ofVars, lqVars, ltVars, vpVars, callVars, pt_current_balance, pt_positions, pt_position_costs, pt_trade_history>>

RECURSIVE SumPnl(_)
SumPnl(history) == IF history = <<>> THEN RNum(0) ELSE PAdd(Head(history).pnl, SumPnl(Tail(history)))

\* calculate_pnl()['unrealized_pnl']
UnrealizedPnl ==
    LET RECURSIVE Sum(_)
        Sum(S) == IF S = {} THEN RNum(0)
                  ELSE LET symbol == CHOOSE x \in S : TRUE
                       IN PAdd(PMul(pt_positions[symbol], PSub(pt_market_prices[symbol], pt_position_costs[symbol])), Sum(S \ {symbol}))
    IN Sum(DOMAIN pt_positions \cap DOMAIN pt_market_prices \cap DOMAIN pt_position_costs)

\* calculate_pnl(): the sums it returns
CalculatePnl ==
    /\ last_op' = OpRecInfo("calculate_pnl", "", "", TRUE, <<[realized_pnl |-> SumPnl(pt_trade_history), unrealized_pnl |-> UnrealizedPnl, total_value |-> CalculateTotalPortfolioValue]>>)
    /\ UNCHANGED <<now, aggVars, cdVars, mrVars, ofVars, lqVars, restVars>>

----------------------------------------------------------------------------
(* Specifications *)

Init ==
    /\ now = 0
    /\ agg_recent_signals = EmptyDict
    /\ agg_symbol_cooldowns = EmptyDict
    /\ agg_combined_signals = <<>>
    /\ cd_cooldown_periods = EmptyDict
    /\ cd_signal_history = EmptyDict
    /\ cd_symbol_specific_cooldowns = EmptyDict
    /\ cd_default_cooldown_minutes = default_cooldown_minutes
    /\ cd_last_set = EmptyDict
    /\ mr_price_windows = EmptyDict
    /\ mr_current_regime = "NORMAL"
    /\ mr_pending_regime = "None"
    /\ mr_regime_confirmations = 0
    /\ mr_streak = [regime |-> "None", count |-> 0]
    /\ of_trade_windows = EmptyDict
    /\ of_signal_cooldowns = EmptyDict
    /\ of_last_fired = EmptyDict
    /\ lq_liquidity_windows = EmptyDict
    /\ lq_signal_cooldowns = EmptyDict
    /\ lq_last_fired = EmptyDict
    /\ lt_latency_history = EmptyDict
    /\ lt_current_thresholds = base_thresholds
    /\ lt_threshold_adjustments = 0
    /\ vp_price_windows = EmptyDict
    /\ vp_volume_windows = EmptyDict
    /\ vp_correlations = EmptyDict
    /\ vp_signal_cooldowns = EmptyDict
    /\ vp_signal_history = <<>>
    /\ agg_calls = [c \in Threads |-> IdleCall]
    /\ pt_current_balance = initial_balance
    /\ pt_positions = EmptyDict
    /\ pt_position_costs = EmptyDict
    /\ pt_market_prices = EmptyDict
    /\ pt_trade_history = <<>>
    /\ last_op = OpRec("init", "", "", FALSE)

AggTick ==
    \E d \in AggTickSeconds :
        /\ now + d <= MaxAggTicks * 15
        /\ now' = now + d
        /\ last_op' = OpRec("tick", "", "", FALSE)
        /\ UNCHANGED <<aggVars, cdVars, mrVars, ofVars, lqVars, restVars>>

AggAdd ==
    \E s \in Symbols, t \in SignalTypes, ac \in AlgorithmSignals :
        /\ (s \in DOMAIN agg_recent_signals => Len(agg_recent_signals[s]) < MaxRecent)
        /\ AddAlgorithmSignal(s, t, ac[1], ac[2])

NextAgg == AggAdd \/ AggCleanupExpiredData \/ AggTick

SpecAgg == Init /\ [][NextAgg]_vars

CdTick ==
    \E d \in CdTickSeconds :
        /\ now + d <= MaxCdTicks * 60
        /\ now' = now + d
        /\ last_op' = OpRec("tick", "", "", FALSE)
        /\ UNCHANGED <<aggVars, cdVars, mrVars, ofVars, lqVars, restVars>>

CdSetCooldown == \E s \in Symbols, m \in CooldownMinutes : SetCooldown(s, m)

CdIsInCooldown == \E s \in Symbols : IsInCooldown(s)

CdRecordSignalResult ==
    \E s \in Symbols, success \in BOOLEAN :
        /\ (s \in DOMAIN cd_signal_history => Len(cd_signal_history[s]) < MaxHistory)
        /\ RecordSignalResult(s, success)

NextCooldown ==
    CdSetCooldown \/ CdIsInCooldown \/ CdRecordSignalResult \/ CleanupExpiredCooldowns \/ CdTick

SpecCooldown == Init /\ [][NextCooldown]_vars

CfgSetSymbolCooldown ==
    \E s \in Symbols, m \in ConfiguredSymbolMinutes : SetSymbolCooldown(s, m)

CfgUpdateDefaultCooldown == \E m \in ConfiguredDefaults : UpdateDefaultCooldown(m)

CfgRecordSignalResult ==
    \E s \in Symbols, success \in BOOLEAN :
        /\ (s \in DOMAIN cd_signal_history => Len(cd_signal_history[s]) < MaxHistory)
        /\ RecordSignalResult(s, success)

CfgSetCooldown == \E s \in Symbols : SetCooldown(s, <<>>)

NextConfig ==
    CfgSetSymbolCooldown \/ CfgUpdateDefaultCooldown \/ CfgRecordSignalResult \/ CfgSetCooldown

SpecConfig == Init /\ [][NextConfig]_vars

DynRecordSignalResult ==
    \E s \in DynamicSymbols, success \in BOOLEAN :
        /\ Len(Outcomes(s)) < MaxOutcomes
        /\ RecordSignalResult(s, success)

DynRecordOtherResult ==
    \E s \in OtherSymbols, success \in BOOLEAN :
        /\ Len(Outcomes(s)) < MaxOtherOutcomes
        /\ RecordSignalResult(s, success)

DynSetCooldown == \E s \in DynamicSymbols : SetCooldown(s, <<>>)

NextDynamic == DynRecordSignalResult \/ DynRecordOtherResult \/ DynSetCooldown

SpecDynamic == Init /\ [][NextDynamic]_vars

MrAddPriceData ==
    \E symbol \in PriceSymbols, pruned \in 0..(MaxPricePoints + 1), vol \in VolLevels :
        /\ (IF symbol \in DOMAIN mr_price_windows THEN mr_price_windows[symbol].len ELSE 0)
             + 1 - pruned <= MaxPricePoints
        /\ AddPriceData(symbol, pruned, vol)

MrAddAltPriceData ==
    \E symbol \in AltPriceSymbols :
        /\ (IF symbol \in DOMAIN mr_price_windows THEN mr_price_windows[symbol].len ELSE 0)
             < MaxAltPoints
        /\ AddPriceData(symbol, 0, 0)

NextRegime == MrAddPriceData \/ MrAddAltPriceData

SpecRegime == Init /\ [][NextRegime]_vars

\* the regime filter consulted while BTC prices arrive: the window is kept full once
\* it holds MaxPricePoints prices
FltAddPriceData ==
    \E vol \in VolLevels :
        LET len == IF "BTC" \in DOMAIN mr_price_windows THEN mr_price_windows["BTC"].len ELSE 0
        IN AddPriceData("BTC", IF len >= MaxPricePoints THEN 1 ELSE 0, vol)

FltFilterSignal == \E s \in Symbols, is_altcoin \in BOOLEAN : FilterSignal(s, is_altcoin)

NextFilter == FltAddPriceData \/ FltFilterSignal

SpecFilter == Init /\ [][NextFilter]_vars

LatRecordLatency ==
    \E component \in LatencyComponents :
        \E latency_ms \in LatencyInputs(component) :
            LET len == IF component \in DOMAIN lt_latency_history THEN Len(lt_latency_history[component]) ELSE 0
            IN /\ len < (IF component = StudiedComponent THEN MaxLatencySamples ELSE MaxOtherLatencySamples)
               /\ RecordLatency(component, latency_ms)

LatGetCurrentThreshold == \E threshold_type \in ThresholdTypes : GetCurrentThreshold(threshold_type)

NextLatency == LatRecordLatency \/ LatGetCurrentThreshold

SpecLatency == Init /\ [][NextLatency]_vars

\* SpecSticky: one weighted component whose latency rises and recovers, with
\* reset_thresholds and clear_history
StkRecordLatency ==
    \E latency_ms \in StickyLatencies :
        LET len == IF StudiedComponent \in DOMAIN lt_latency_history THEN Len(lt_latency_history[StudiedComponent]) ELSE 0
        IN /\ len < MaxStickySamples
           /\ RecordLatency(StudiedComponent, latency_ms)

StkClearHistory == \E component \in ClearedComponents : ClearHistory(component)

NextSticky == StkRecordLatency \/ ResetThresholds \/ StkClearHistory

SpecSticky == Init /\ [][NextSticky]_vars

VpTick ==
    \E d \in VpTickSeconds :
        /\ now + d <= MaxVpTicks * 90
        /\ now' = now + d
        /\ last_op' = OpRec("tick", "", "", FALSE)
        /\ UNCHANGED <<aggVars, cdVars, mrVars, ofVars, lqVars, restVars>>

VpAddPrice ==
    \E s \in Symbols, valid \in BOOLEAN, pruned \in PrunedPoints, stability \in PriceStabilityLevels, correlation \in CorrelationLevels :
        /\ WindowLen(vp_price_windows, s) - pruned < MaxVpPrices
        /\ VpAddPriceData(s, valid, pruned, stability, correlation)

VpAddVolume ==
    \E s \in Symbols, valid \in BOOLEAN, pruned \in PrunedPoints, increase \in VolumeIncreaseLevels, correlation \in CorrelationLevels :
        /\ WindowLen(vp_volume_windows, s) - pruned < MaxVpVolumes
        /\ VpAddVolumeData(s, valid, pruned, increase, correlation)

VpCheck == \E s \in Symbols : VpIsSignalTriggered(s)

NextVolumePrice == VpTick \/ VpAddPrice \/ VpAddVolume \/ VpCheck

SpecVolumePrice == Init /\ [][NextVolumePrice]_vars

GateTick ==
    \E d \in GateTickSeconds :
        /\ now + d <= MaxGateTicks * 300
        /\ now' = now + d
        /\ last_op' = OpRec("tick", "", "", FALSE)
        /\ UNCHANGED <<aggVars, cdVars, mrVars, ofVars, lqVars, restVars>>

GateDecide ==
    \E s \in Symbols, combined_signal_generated \in BOOLEAN, i \in DOMAIN Quotes :
        TradingDecision(s, combined_signal_generated, Quotes[i].is_altcoin, Quotes[i].orderbook,
                        Quotes[i].trade_size, Quotes[i].trade_side, Quotes[i].predicted_profit)

GateRecordSignalResult ==
    \E s \in Symbols, success \in BOOLEAN :
        /\ (s \in DOMAIN cd_signal_history => Len(cd_signal_history[s]) < MaxGateHistory)
        /\ RecordSignalResult(s, success)

\* a full window stays full: the insert pushes its oldest price out of the time window
GateAddPriceData ==
    \E vol \in GateVolLevels :
        LET len == IF "BTC" \in DOMAIN mr_price_windows THEN mr_price_windows["BTC"].len ELSE 0
        IN AddPriceData("BTC", IF len >= MaxPricePoints THEN 1 ELSE 0, vol)

NextGate == GateDecide \/ GateRecordSignalResult \/ GateAddPriceData \/ GateTick

SpecGate == Init /\ [][NextGate]_vars

FlowTick ==
    \E d \in FlowTickSeconds :
        /\ now + d <= MaxFlowTicks * 15
        /\ now' = now + d
        /\ last_op' = OpRec("tick", "", "", FALSE)
        /\ UNCHANGED <<aggVars, cdVars, mrVars, ofVars, lqVars, restVars>>

\* the trade dict of an input, stamped against the clock
Stamped(t) ==
    IF "price" \in DOMAIN t
    THEN [side |-> t.side, amount |-> t.amount, price |-> t.price, timestamp |-> now - t.age]
    ELSE [side |-> t.side, amount |-> t.amount, timestamp |-> now - t.age]

FlowAddTrade ==
    \E s \in Symbols, i \in DOMAIN TradeInputs :
        /\ (s \in DOMAIN of_trade_windows => Len(of_trade_windows[s]) < MaxTrades)
        /\ AddTrade(s, Stamped(TradeInputs[i]))

FlowIsSignalTriggered == \E s \in Symbols : IsSignalTriggered(s)

NextFlow == FlowAddTrade \/ FlowIsSignalTriggered \/ FlowTick

SpecFlow == Init /\ [][NextFlow]_vars

DetectTick ==
    \E d \in DetectTickSeconds :
        /\ now + d <= MaxDetectTicks * 30
        /\ now' = now + d
        /\ last_op' = OpRec("tick", "", "", FALSE)
        /\ UNCHANGED <<aggVars, cdVars, mrVars, ofVars, lqVars, restVars>>

DetectAddTrade ==
    \E s \in Symbols, i \in DetectTradeInputs :
        /\ (s \in DOMAIN of_trade_windows => Len(of_trade_windows[s]) < MaxTrades)
        /\ AddTrade(s, Stamped(TradeInputs[i]))

DetectIsSignalTriggered == \E s \in Symbols : IsSignalTriggered(s)

DetectAggAdd ==
    \E s \in Symbols, t \in DetectSignalTypes, ac \in AlgorithmSignals :
        /\ (s \in DOMAIN agg_recent_signals => Len(agg_recent_signals[s]) < MaxRecent)
        /\ AddAlgorithmSignal(s, t, ac[1], ac[2])

NextDetect == DetectAddTrade \/ DetectIsSignalTriggered \/ DetectAggAdd \/ DetectTick

SpecDetect == Init /\ [][NextDetect]_vars

LiqTick ==
    \E d \in LiqTickSeconds :
        /\ now + d <= MaxLiqTicks * 30
        /\ now' = now + d
        /\ last_op' = OpRec("tick", "", "", FALSE)
        /\ UNCHANGED <<aggVars, cdVars, mrVars, ofVars, lqVars, restVars>>

\* a reading stamped `age` seconds behind the clock; no two stored readings of a
\* symbol carry the same timestamp
LiqAddLiquidityData ==
    \E s \in Symbols, total_liquidity \in LiquidityLevels, age \in LiquidityAges :
        /\ (s \in DOMAIN lq_liquidity_windows =>
               /\ Len(lq_liquidity_windows[s]) < MaxReadings
               /\ \A i \in DOMAIN lq_liquidity_windows[s] :
                      lq_liquidity_windows[s][i].timestamp # now - age)
        /\ AddLiquidityData(s, [total_liquidity |-> total_liquidity, timestamp |-> now - age])

\* a reading without a timestamp
LiqAddInvalidData ==
    \E s \in Symbols, total_liquidity \in LiquidityLevels :
        AddLiquidityData(s, [total_liquidity |-> total_liquidity])

LiqIsSignalTriggered == \E s \in Symbols : LqIsSignalTriggered(s)

NextLiquidity == LiqTick \/ LiqAddLiquidityData \/ LiqAddInvalidData \/ LiqIsSignalTriggered

SpecLiquidity == Init /\ [][NextLiquidity]_vars

SlipCalculateSlippage ==
    \E orderbook \in SlipOrderBooks, trade_size \in SlipTradeSizes, trade_side \in TradeSides :
        SlippageCall(orderbook, trade_size, trade_side)

SlipShouldCancelSignal ==
    \E estimated_slippage \in SlippageInputs, predicted_profit \in ProfitInputs :
        CancelCall(estimated_slippage, predicted_profit)

SlipGetOptimalTradeSize ==
    \E orderbook \in OptimalSizeBooks, max_slippage \in MaxSlippageInputs, trade_side \in TradeSides :
        OptimalSizeCall(orderbook, max_slippage, trade_side)

NextSlippage == SlipCalculateSlippage \/ SlipShouldCancelSignal \/ SlipGetOptimalTradeSize

SpecSlippage == Init /\ [][NextSlippage]_vars

\* SpecMonotone: calculate_slippage for two trade sizes on the same book and side
MonoCalculateSlippage ==
    \E orderbook \in MonotoneBooks, smaller_size \in MonotoneSizes, larger_size \in MonotoneSizes, trade_side \in TradeSides :
        /\ smaller_size <= larger_size
        /\ SlippageCallsOfTwoSizes(orderbook, smaller_size, larger_size, trade_side)

NextMonotone == MonoCalculateSlippage

SpecMonotone == Init /\ [][NextMonotone]_vars

\* SpecIsolation takes each symbol through the pipeline in its order: trades and the
\* order-flow check, liquidity readings and check, price and volume points and the
\* volume-price check, raw signals to the aggregator, then the cooldown manager. A
\* component is fed once the one before it has fired, and no longer once a later
\* one holds state; the symbols advance independently.
IsoLiquidityStarted(s) == s \in DOMAIN lq_liquidity_windows

IsoVolumePriceStarted(s) == s \in DOMAIN vp_price_windows \/ s \in DOMAIN vp_volume_windows

IsoAggregatorStarted(s) == s \in DOMAIN agg_recent_signals \/ s \in DOMAIN agg_symbol_cooldowns

IsoCooldownStarted(s) == s \in DOMAIN cd_cooldown_periods \/ s \in DOMAIN cd_signal_history

IsoOrderFlowStage(s) == ~IsoLiquidityStarted(s)

IsoLiquidityStage(s) == s \in DOMAIN of_signal_cooldowns /\ ~IsoVolumePriceStarted(s)

IsoVolumePriceStage(s) == s \in DOMAIN lq_signal_cooldowns /\ ~IsoAggregatorStarted(s)

IsoAggregatorStage(s) == s \in DOMAIN vp_signal_cooldowns /\ ~IsoCooldownStarted(s)

IsoCooldownStage(s) == s \in DOMAIN agg_symbol_cooldowns

IsoAddTrade ==
    \E s \in IsolationSymbols :
        /\ IsoOrderFlowStage(s)
        /\ (s \in DOMAIN of_trade_windows => Len(of_trade_windows[s]) < MaxIsoSamples)
        /\ AddTrade(s, Stamped(TradeInputs[1]))

IsoIsSignalTriggered == \E s \in IsolationSymbols : IsoOrderFlowStage(s) /\ IsSignalTriggered(s)

IsoAddLiquidityData ==
    \E s \in IsolationSymbols :
        LET len == IF s \in DOMAIN lq_liquidity_windows THEN Len(lq_liquidity_windows[s]) ELSE 0
        IN /\ IsoLiquidityStage(s)
           /\ len < MaxIsoSamples
           /\ len < Len(IsolationReadings)
           /\ AddLiquidityData(s, [total_liquidity |-> IsolationReadings[len + 1].total_liquidity, timestamp |-> now - IsolationReadings[len + 1].age])

IsoLqIsSignalTriggered == \E s \in IsolationSymbols : IsoLiquidityStage(s) /\ LqIsSignalTriggered(s)

IsoVpAddPriceData ==
    \E s \in IsolationSymbols :
        /\ IsoVolumePriceStage(s)
        /\ WindowLen(vp_price_windows, s) < MaxVpPrices
        /\ VpAddPriceData(s, TRUE, 0, price_stability_threshold, default_correlation)

IsoVpAddVolumeData ==
    \E s \in IsolationSymbols :
        /\ IsoVolumePriceStage(s)
        /\ WindowLen(vp_price_windows, s) >= MaxVpPrices
        /\ WindowLen(vp_volume_windows, s) < MaxVpVolumes
        /\ VpAddVolumeData(s, TRUE, 0, volume_multiplier_threshold, default_correlation)

IsoVpIsSignalTriggered == \E s \in IsolationSymbols : IsoVolumePriceStage(s) /\ VpIsSignalTriggered(s)

IsoAddAlgorithmSignal ==
    \E s \in IsolationSymbols, ac \in AlgorithmSignals :
        /\ IsoAggregatorStage(s)
        /\ (s \in DOMAIN agg_recent_signals => Len(agg_recent_signals[s]) < MaxIsoSamples)
        /\ AddAlgorithmSignal(s, "BUY", ac[1], ac[2])

IsoSetCooldown ==
    \E s \in IsolationSymbols, m \in IsolationCooldownMinutes : IsoCooldownStage(s) /\ SetCooldown(s, m)

IsoIsInCooldown == \E s \in IsolationSymbols : IsoCooldownStage(s) /\ IsInCooldown(s)

IsoRecordSignalResult ==
    \E s \in IsolationSymbols :
        /\ IsoCooldownStage(s)
        /\ (s \in DOMAIN cd_signal_history => Len(cd_signal_history[s]) < MaxIsoPoints)
        /\ RecordSignalResult(s, TRUE)

NextIsolation ==
    \/ IsoAddTrade \/ IsoIsSignalTriggered \/ IsoAddLiquidityData \/ IsoLqIsSignalTriggered
    \/ IsoVpAddPriceData \/ IsoVpAddVolumeData \/ IsoVpIsSignalTriggered
    \/ IsoAddAlgorithmSignal \/ IsoSetCooldown \/ IsoIsInCooldown \/ IsoRecordSignalResult

SpecIsolation == Init /\ [][NextIsolation]_vars

RaceTick ==
    \E d \in RaceTickSeconds :
        /\ now + d <= MaxRaceTicks * 150
        /\ now' = now + d
        /\ last_op' = OpRec("tick", "", "", FALSE)
        /\ UNCHANGED <<aggVars, cdVars, mrVars, ofVars, lqVars, restVars>>

RaceCheckCooldown ==
    \E c \in Threads, s \in Symbols, ac \in RaceAlgorithmSignals :
        /\ (s \in DOMAIN agg_recent_signals => Len(agg_recent_signals[s]) < MaxRaceRecent)
        /\ CallCheckCooldown(c, s, "BUY", ac[1], ac[2])

RaceRecordAndConfirm == \E c \in Threads : CallRecordAndConfirm(c)

RaceSetCooldown == \E c \in Threads : CallSetCooldown(c)

NextRace == RaceCheckCooldown \/ RaceRecordAndConfirm \/ RaceSetCooldown \/ RaceTick

SpecRace == Init /\ [][NextRace]_vars

SmpTick ==
    \E d \in SampleTickSeconds :
        /\ now + d <= MaxSampleTicks * 15
        /\ now' = now + d
        /\ last_op' = OpRec("tick", "", "", FALSE)
        /\ UNCHANGED <<aggVars, cdVars, mrVars, ofVars, lqVars, restVars>>

\* the reading of an input, stamped against the clock (its timestamp field is an offset)
StampedReading(r) ==
    IF "timestamp" \in DOMAIN r
    THEN [total_liquidity |-> r.total_liquidity, timestamp |-> now + r.timestamp]
    ELSE r

SmpAddTrade ==
    \E s \in Symbols, i \in DOMAIN SampleTrades :
        /\ (s \in DOMAIN of_trade_windows => Len(of_trade_windows[s]) < MaxSamples)
        /\ AddTrade(s, Stamped(SampleTrades[i]))

SmpAddLiquidityData ==
    \E s \in Symbols, i \in DOMAIN SampleReadings :
        /\ (s \in DOMAIN lq_liquidity_windows => Len(lq_liquidity_windows[s]) < MaxSamples)
        /\ AddLiquidityData(s, StampedReading(SampleReadings[i]))

NextSamples == SmpAddTrade \/ SmpAddLiquidityData \/ SmpTick

SpecSamples == Init /\ [][NextSamples]_vars

Buys == Len(SelectSeq(pt_trade_history, LAMBDA t : t.side = "BUY"))

PtExecuteSignal ==
    \E symbol \in PaperSymbols, signal_type \in PaperSignalTypes, current_price \in PaperPrices, confidence \in PaperConfidences, slippage \in PaperSlippages :
        /\ Len(pt_trade_history) < MaxPaperTrades
        /\ signal_type = "BUY" => Buys < MaxBuys
        /\ ExecuteSignal(symbol, signal_type, RNum(current_price), confidence, slippage)

PtUpdateMarketPrice == \E symbol \in PaperSymbols, price \in PaperPrices : UpdateMarketPrice(symbol, RNum(price))

PtCalculatePnl == CalculatePnl

NextPaper == PtExecuteSignal \/ PtUpdateMarketPrice \/ PtCalculatePnl

SpecPaper == Init /\ [][NextPaper]_vars

\* the position value of a BUY, its powers of ten taken out, is small enough for
\* the cost at a slipped fill price to be computed in the integers of the model
CostComputable(symbol, current_price) ==
    \E position_value \in {CalculatePositionSize(default_predicted_reward, OverdrawConfidence, DictSet(pt_market_prices, symbol, RNum(current_price)))} :
        position_value[1] \div GCD(position_value[1], 1000000) <= MaxValueDigits

\* SpecOverdraw: the engine buying twice while the market price of its holding moves
OvExecuteSignal ==
    \E symbol \in PaperSymbols, signal_type \in OverdrawSignalTypes, current_price \in OverdrawPrices, slippage \in PaperSlippages :
        /\ Len(pt_trade_history) < MaxPaperTrades
        /\ signal_type = "BUY" => Buys < MaxOverdrawBuys
        /\ signal_type = "BUY" => CostComputable(symbol, current_price)
        /\ ExecuteSignal(symbol, signal_type, RNum(current_price), OverdrawConfidence, slippage)

OvUpdateMarketPrice == \E symbol \in PaperSymbols, price \in OverdrawMarketPrices : UpdateMarketPrice(symbol, RNum(price))

NextOverdraw == OvExecuteSignal \/ OvUpdateMarketPrice

SpecOverdraw == Init /\ [][NextOverdraw]_vars

\* SpecPipeline: the three detectors are fed and asked, and what a detector answers
\* is passed to add_algorithm_signal as it is, under the detector's name. The
\* volume-price windows are filled first.
PipeVpFilled(s) == WindowLen(vp_price_windows, s) >= min_correlation_points /\ WindowLen(vp_volume_windows, s) >= min_volume_points

PipeTick ==
    \E d \in PipeTickSeconds :
        /\ \A s \in Symbols : PipeVpFilled(s)
        /\ now + d <= MaxPipeTicks * 15
        /\ now' = now + d
        /\ last_op' = OpRec("tick", "", "", FALSE)
        /\ UNCHANGED <<aggVars, cdVars, mrVars, ofVars, lqVars, restVars>>

PipeVpAddPriceData ==
    \E s \in Symbols :
        /\ WindowLen(vp_price_windows, s) < min_correlation_points
        /\ VpAddPriceData(s, TRUE, 0, price_stability_threshold, default_correlation)

PipeVpAddVolumeData ==
    \E s \in Symbols, correlation \in PipeCorrelations :
        /\ WindowLen(vp_price_windows, s) >= min_correlation_points
        /\ WindowLen(vp_volume_windows, s) < min_volume_points
        /\ VpAddVolumeData(s, TRUE, 0, volume_multiplier_threshold, correlation)

PipeAddTrade ==
    \E s \in Symbols, t \in PipeTrades :
        /\ PipeVpFilled(s)
        /\ (IF s \in DOMAIN of_trade_windows THEN of_trade_windows[s] = <<>> ELSE TRUE)
        /\ AddTrade(s, Stamped(t))

PipeAddLiquidityData ==
    \E s \in Symbols, r \in PipeSecondReadings :
        LET len == IF s \in DOMAIN lq_liquidity_windows THEN Len(lq_liquidity_windows[s]) ELSE 0
            reading == IF len = 0 THEN PipeFirstReading ELSE r
        IN /\ PipeVpFilled(s)
           /\ len < 2
           /\ AddLiquidityData(s, [total_liquidity |-> reading.total_liquidity, timestamp |-> now - reading.age])

PipeIsSignalTriggered == \E s \in Symbols : PipeVpFilled(s) /\ IsSignalTriggered(s)

PipeLqIsSignalTriggered == \E s \in Symbols : PipeVpFilled(s) /\ LqIsSignalTriggered(s)

PipeVpIsSignalTriggered == \E s \in Symbols : PipeVpFilled(s) /\ VpIsSignalTriggered(s)

\* `if signal: signal_aggregator.add_algorithm_signal(symbol, type, name, confidence)`
PipeForward ==
    \E d \in PipeDetectors :
        /\ last_op.op = d[1]
        /\ last_op.ok
        /\ AddAlgorithmSignal(last_op.symbol, last_op.kind, d[2], d[3])

NextPipeline ==
    \/ PipeTick \/ PipeVpAddPriceData \/ PipeVpAddVolumeData \/ PipeAddTrade \/ PipeAddLiquidityData
    \/ PipeIsSignalTriggered \/ PipeLqIsSignalTriggered \/ PipeVpIsSignalTriggered \/ PipeForward

SpecPipeline == Init /\ [][NextPipeline]_vars

\* SpecStrength: the aggregator fed by all three algorithms on a 5 s clock, so that the
\* signals of a confirmation differ in weight, in confidence and in time decay
StrTick ==
    \E d \in StrengthTickSeconds :
        /\ now + d <= MaxStrengthTicks * 5
        /\ now' = now + d
        /\ last_op' = OpRec("tick", "", "", FALSE)
        /\ UNCHANGED <<aggVars, cdVars, mrVars, ofVars, lqVars, restVars>>

StrAdd ==
    \E s \in Symbols, t \in SignalTypes, ac \in StrengthSignals :
        /\ (s \in DOMAIN agg_recent_signals => Len(agg_recent_signals[s]) < MaxRecent)
        /\ AddAlgorithmSignal(s, t, ac[1], ac[2])

NextStrength == StrAdd \/ StrTick

SpecStrength == Init /\ [][NextStrength]_vars

----------------------------------------------------------------------------
(* Claims about the aggregator, checked under SpecAgg *)

IsOp(op) == last_op.op = op

\* the raw signals of symbol s retained before a call at `now`, the ones the
\* call's own cleaning keeps: those less than signal_window_seconds old
RetainedBefore(s) ==
    IF s \in DOMAIN agg_recent_signals
    THEN SelectSeq(agg_recent_signals[s], LAMBDA sig : now - sig.timestamp < signal_window_seconds)
    ELSE <<>>

\* C1: outside cooldown, add_algorithm_signal returns True and appends one
\* CombinedSignal exactly when the retained raw signals of the call's type, the
\* new one included, number at least 2 and come from at least 2 distinct algorithms.
ThmC1_ConfirmationRule ==
    [][\A s \in Symbols :
         (last_op'.op = "add_algorithm_signal" /\ last_op'.symbol = s /\ ~AggIsInCooldown(s))
         => LET t == last_op'.kind
                new == agg_recent_signals'[s][Len(agg_recent_signals'[s])]
                same == SelectSeq(RetainedBefore(s), LAMBDA sig : sig.signal_type = t)
                count == Len(same) + 1
                algos == {same[i].algorithm : i \in DOMAIN same} \cup {new.algorithm}
            IN /\ new.timestamp = now /\ new.signal_type = t
               /\ last_op'.ok <=> (count >= 2 /\ Cardinality(algos) >= 2)
               /\ last_op'.ok <=> (Len(agg_combined_signals') = Len(agg_combined_signals) + 1)
               /\ ~last_op'.ok => agg_combined_signals' = agg_combined_signals
      ]_vars

\* a confirmation to which one algorithm contributed twice
WitC1_ConfirmedWithDuplicate ==
    /\ IsOp("add_algorithm_signal") /\ last_op.ok
    /\ \E s \in DOMAIN agg_recent_signals :
          /\ Len(agg_recent_signals[s]) = 3
          /\ \A i \in 1..3 : agg_recent_signals[s][i].signal_type = last_op.kind
          /\ agg_recent_signals[s][1].algorithm = agg_recent_signals[s][2].algorithm

\* C2: two CombinedSignals of one symbol are at least agg_cooldown_period apart, and
\* a call that returns True is the one that appended the newest of them at `now`.
ThmC2_CooldownSpacing ==
    /\ \A i, j \in DOMAIN agg_combined_signals :
          (i < j /\ agg_combined_signals[i].symbol = agg_combined_signals[j].symbol)
          => agg_combined_signals[j].timestamp >= agg_combined_signals[i].timestamp + 300
    /\ (IsOp("add_algorithm_signal") /\ last_op.ok)
          => /\ agg_combined_signals # <<>>
             /\ agg_combined_signals[Len(agg_combined_signals)].timestamp = now
             /\ agg_combined_signals[Len(agg_combined_signals)].symbol = last_op.symbol

\* a second CombinedSignal after the first cooldown ran out, and a call refused
\* during the second cooldown
WitC2_BlockedAfterSecondEmission ==
    /\ Len(agg_combined_signals) = 2
    /\ IsOp("add_algorithm_signal") /\ ~last_op.ok
    /\ AggIsInCooldown(last_op.symbol)

----------------------------------------------------------------------------
(* Claims about the cooldown manager, checked under SpecCooldown *)

\* C9: is_in_cooldown(symbol) answers True exactly while the latest set_cooldown
\* of the symbol, made at time t for d minutes, has not run out (now < t + 60 d);
\* an answer of False leaves no entry for the symbol, and a symbol never set is
\* never reported in cooldown.
ThmC9_CooldownInterval ==
    IsOp("is_in_cooldown")
    => LET s == last_op.symbol
       IN /\ last_op.ok <=> (s \in DOMAIN cd_last_set
                              /\ now < cd_last_set[s].at + 60 * cd_last_set[s].minutes)
          /\ ~last_op.ok => s \notin DOMAIN cd_cooldown_periods
          /\ s \notin DOMAIN cd_last_set => ~last_op.ok

\* the call made at the very instant of expiry answers False and removes the entry
WitC9_FalseAtExpiry ==
    /\ IsOp("is_in_cooldown") /\ ~last_op.ok
    /\ last_op.symbol \in DOMAIN cd_last_set
    /\ now = cd_last_set[last_op.symbol].at + 60 * cd_last_set[last_op.symbol].minutes
    /\ last_op.symbol \notin DOMAIN cd_cooldown_periods

\* C10 as stated: every entry present in cooldown_periods expires in the future
CexC10_NoExpiredEntryPresent ==
    \A s \in DOMAIN cd_cooldown_periods : cd_cooldown_periods[s] > now

\* C10 amended: deletion is lazy. Right after set_cooldown (positive duration) or
\* is_in_cooldown the symbol's entry, if present, expires in the future, and right
\* after cleanup_expired_cooldowns every entry does.
ThmC10_NoExpiredEntryAfterCall ==
    /\ IsOp("set_cooldown")
         => /\ last_op.symbol \in DOMAIN cd_cooldown_periods
            /\ cd_cooldown_periods[last_op.symbol] > now
    /\ IsOp("is_in_cooldown")
         => (last_op.symbol \in DOMAIN cd_cooldown_periods
               => cd_cooldown_periods[last_op.symbol] > now)
    /\ IsOp("cleanup_expired_cooldowns")
         => \A s \in DOMAIN cd_cooldown_periods : cd_cooldown_periods[s] > now

\* an expired entry was present and the check removed it
WitC10_LazyDeletion ==
    /\ IsOp("is_in_cooldown") /\ ~last_op.ok
    /\ last_op.symbol \in DOMAIN cd_last_set
    /\ now > cd_last_set[last_op.symbol].at + 60 * cd_last_set[last_op.symbol].minutes
    /\ last_op.symbol \notin DOMAIN cd_cooldown_periods

----------------------------------------------------------------------------
(* Claims about the market regime filter, checked under SpecRegime *)

\* C4: current_regime changes only in a regime evaluation, to the regime R that
\* this evaluation and the two before it classified in a row (exactly the 3rd
\* consecutive one), and it does change at every evaluation that is the 3rd in a
\* row to classify a regime other than the current one; a run of 3 or more equal
\* classifications therefore always ends with that regime current.
ThmC4_RegimeHysteresis ==
    [][/\ mr_current_regime' # mr_current_regime
            => /\ last_op'.op = "add_price_data" /\ last_op'.ok
               /\ last_op'.kind = mr_current_regime'
               /\ mr_streak'.regime = mr_current_regime'
               /\ mr_streak'.count = 3
       /\ (last_op'.op = "add_price_data" /\ last_op'.ok /\ mr_streak' # mr_streak
              /\ mr_streak'.count = 3 /\ mr_streak'.regime # mr_current_regime)
            => mr_current_regime' = mr_streak'.regime
       /\ mr_streak'.count >= 3 => mr_current_regime' = mr_streak'.regime
      ]_vars

\* VOLATILE classified three times in a row has just replaced NORMAL
WitC4_FlipOnThird ==
    /\ IsOp("add_price_data") /\ last_op.kind = "VOLATILE"
    /\ mr_current_regime = "VOLATILE"
    /\ mr_streak = [regime |-> "VOLATILE", count |-> 3]
    /\ mr_pending_regime = "None" /\ mr_regime_confirmations = 0


----------------------------------------------------------------------------
(* Claims about the decision gate, checked under SpecGate *)

\* the arguments and verdicts of the decision that ran last
Decision == last_op.info[1]

\* C3: a decision executes the trade only if a CombinedSignal exists and none of the
\* three gates vetoes (is_in_cooldown, should_filter_signal and should_cancel_signal
\* all false on the state the decision found); an executed trade leaves the symbol
\* with a cooldown expiring in the future; and a decision for a symbol whose latest
\* executed trade set a cooldown that has not expired yet is a no-trade.
ThmC3_DecisionGate ==
    [][last_op'.op = "trading_decision" =>
         LET d == last_op'.info[1]
             s == last_op'.symbol
         IN /\ last_op'.ok =>
                  /\ d.combined_signal_generated
                  /\ ~IsInCooldownResult(s)
                  /\ ~ShouldFilterSignal(d.is_altcoin)
                  /\ ~ShouldCancelSignal(
                         CalculateSlippage(d.orderbook, d.trade_size, d.trade_side).estimated_slippage,
                         d.predicted_profit)
                  /\ s \in DOMAIN cd_cooldown_periods'
                  /\ cd_cooldown_periods'[s] > now
                  /\ cd_last_set'[s].at = now
            /\ (s \in DOMAIN cd_last_set /\ now < cd_last_set[s].at + 60 * cd_last_set[s].minutes)
                  => ~last_op'.ok
            /\ ~last_op'.ok => cd_last_set' = cd_last_set
      ]_vars

\* a later decision with a CombinedSignal, a calm regime and an acceptable slippage is
\* refused only because the cooldown of the earlier trade is still running
WitC3_SecondDecisionBlocked ==
    /\ IsOp("trading_decision") /\ ~last_op.ok
    /\ Decision.combined_signal_generated /\ Decision.in_cooldown
    /\ ~Decision.should_filter /\ ~Decision.should_cancel
    /\ last_op.symbol \in DOMAIN cd_last_set
    /\ cd_last_set[last_op.symbol].at < now

\* the order book offers no liquidity for the trade: it is missing or empty, the
\* requested side is absent or empty, or no level of that side has any quantity
NoLiquidity(orderbook, trade_side) ==
    LET side_name == IF trade_side = "BUY" THEN "asks" ELSE "bids"
    IN \/ DOMAIN orderbook = {}
       \/ side_name \notin DOMAIN orderbook
       \/ \A i \in DOMAIN orderbook[side_name] : orderbook[side_name][i][2] = 0

\* C5: whenever the order book given to the gate offers no liquidity for the trade, the
\* slippage result carries an error, its estimated_slippage is not zero, and
\* should_cancel_signal on it vetoes the trade whatever the predicted profit.
CexC5_NoLiquidityVetoes ==
    (IsOp("trading_decision") /\ NoLiquidity(Decision.orderbook, Decision.trade_side))
        => /\ last_op.kind # "None"
           /\ Decision.estimated_slippage # RNum(0)
           /\ Decision.should_cancel


----------------------------------------------------------------------------
(* Claims about the order-flow detector, checked under SpecFlow and SpecDetect *)

\* C6: immediately after an insert into a symbol's trade window every trade stored in
\* the window has timestamp >= now - 30, in whatever order the timestamps arrive.
CexC6_WindowHoldsNoOldSample ==
    (IsOp("add_trade") /\ last_op.ok) =>
        \A i \in DOMAIN of_trade_windows[last_op.symbol] :
            of_trade_windows[last_op.symbol][i].timestamp >= now - 30

\* C7: a check of a symbol that is not in the detector's cooldown returns (True, d)
\* exactly when |imbalance| >= 0.6 and the volume of the window is >= 1000, d being BUY
\* for a positive and SELL for a negative imbalance; otherwise it returns (False, None).
ThmC7_OrderFlowFires ==
    [][(last_op'.op = "is_signal_triggered" /\ ~OFIsInCooldown(last_op'.symbol)) =>
         LET imbalance == CalculateImbalance(last_op'.symbol)
             volume == GetWindowVolume(last_op'.symbol)
         IN /\ last_op'.ok <=> (10 * imbalance[1] >= 6 * imbalance[2]
                                   \/ 10 * imbalance[1] <= -6 * imbalance[2])
                                /\ volume >= 1000
            /\ last_op'.ok /\ imbalance[1] > 0 => last_op'.kind = "BUY"
            /\ last_op'.ok /\ imbalance[1] < 0 => last_op'.kind = "SELL"
            /\ ~last_op'.ok => last_op'.kind = "None"
      ]_vars

\* a SELL fired with both thresholds met exactly
WitC7_FiresAtBothThresholds ==
    /\ IsOp("is_signal_triggered") /\ last_op.ok /\ last_op.kind = "SELL"
    /\ CalculateImbalance(last_op.symbol) = <<-3, 5>>
    /\ GetWindowVolume(last_op.symbol) = 1000

\* C8: a check of a symbol less than 60 s after its latest firing returns no signal;
\* a check that does not fire leaves signal_cooldowns as it was; the detector's cooldown
\* changes only when the detector fires and the aggregator's only in the aggregator's
\* handlers; and outside its own 60 s a check with both thresholds met fires, whatever
\* the aggregator's cooldown for the symbol.
ThmC8_DetectorCooldown ==
    [][/\ last_op'.op = "is_signal_triggered" =>
            LET s == last_op'.symbol
                recently == s \in DOMAIN of_last_fired /\ now < of_last_fired[s] + 60
            IN /\ recently => ~last_op'.ok
               /\ ~last_op'.ok => of_signal_cooldowns' = of_signal_cooldowns
               /\ last_op'.ok => of_signal_cooldowns' = DictSet(of_signal_cooldowns, s, now + 60)
               /\ (~recently /\ ImbalanceTriggers(CalculateImbalance(s))
                      /\ GetWindowVolume(s) >= 1000) => last_op'.ok
               /\ agg_symbol_cooldowns' = agg_symbol_cooldowns
       /\ last_op'.op # "is_signal_triggered" => of_signal_cooldowns' = of_signal_cooldowns
      ]_vars

\* a check with both thresholds met, 30 s after the firing and after more trades, is
\* refused although the aggregator holds no cooldown for the symbol
WitC8_RefusedInsideCooldown ==
    /\ IsOp("is_signal_triggered") /\ ~last_op.ok
    /\ last_op.symbol \in DOMAIN of_last_fired
    /\ now = of_last_fired[last_op.symbol] + 30
    /\ \E i \in DOMAIN of_trade_windows[last_op.symbol] :
           of_trade_windows[last_op.symbol][i].timestamp = now
    /\ ImbalanceTriggers(CalculateImbalance(last_op.symbol))
    /\ GetWindowVolume(last_op.symbol) >= 1000
    /\ last_op.symbol \notin DOMAIN agg_symbol_cooldowns


----------------------------------------------------------------------------
(* Claims about the dynamic cooldown, checked under SpecConfig and SpecDynamic *)

\* C11: a cooldown that set_cooldown(symbol) has just started with minutes omitted
\* lasts at least 5 and at most 60 minutes, whatever the symbol's outcome history and
\* whatever base duration is configured.
CexC11_DynamicCooldownWithinBounds ==
    (IsOp("set_cooldown") /\ last_op.kind = "omitted") =>
        /\ cd_cooldown_periods[last_op.symbol] - now >= 5 * 60
        /\ cd_cooldown_periods[last_op.symbol] - now <= 60 * 60


\* a list of n outcomes of which k are successes
AltOutcomes(k, n) == [i \in 1..n |-> i <= k]

SuccessCount(history) == Cardinality({i \in DOMAIN history : history[i]})

\* the dynamic cooldown, in minutes, of every base within the clamp and every list of
\* n <= 10 outcomes with k successes: CooldownByRate[base][n][k]
CooldownByRate ==
    [b \in 5..60 |-> [n \in 1..10 |-> [k \in 0..n |-> DynamicCooldown(b, AltOutcomes(k, n))]]]

\* C12: the cooldown set_cooldown(symbol) starts with minutes omitted is the one the
\* symbol's last 10 outcomes give (earlier outcomes do not count); it is no longer than
\* that of any list of outcomes with a lower or equal success rate and no shorter than
\* that of any list with a higher or equal rate; with 8 successes in 10 it is strictly
\* shorter than with 1 in 10; the outcomes recorded for another symbol do not enter it.
ThmC12_DynamicCooldownBySuccessRate ==
    (IsOp("set_cooldown") /\ last_op.kind = "omitted") =>
        LET s == last_op.symbol
            seconds == cd_cooldown_periods[s] - now
            last10 == LastN(Outcomes(s), 10)
            n == Len(last10)
            k == SuccessCount(last10)
        IN /\ seconds = 60 * DynamicCooldown(BaseCooldown(s), last10)
           /\ n > 0 => \A n2 \in 1..10 : \A k2 \in 0..n2 :
                    LET other == 60 * CooldownByRate[BaseCooldown(s)][n2][k2]
                    IN /\ k2 * n >= k * n2 => other <= seconds
                       /\ k2 * n <= k * n2 => other >= seconds
           /\ (n = 10 /\ k = 8) => seconds < 60 * CooldownByRate[BaseCooldown(s)][10][1]
           /\ (n = 10 /\ k = 1) => seconds > 60 * CooldownByRate[BaseCooldown(s)][10][8]

WitC12_EleventhOutcomeIgnored ==
    /\ IsOp("set_cooldown") /\ last_op.kind = "omitted" /\ last_op.symbol = "SOL"
    /\ Len(Outcomes("SOL")) = 11
    /\ ~Outcomes("SOL")[1]
    /\ SuccessCount(LastN(Outcomes("SOL"), 10)) = 8
    /\ cd_cooldown_periods["SOL"] - now = 600
    /\ Outcomes("AVAX") = <<FALSE>>


----------------------------------------------------------------------------
(* Claims about the market regime filter, checked under SpecRegime and SpecGate *)

\* the larger of the BTC and ETH volatilities of the stored windows, per mille
MaxVolatility ==
    Max(CalculateVolatility(mr_price_windows, "BTC"), CalculateVolatility(mr_price_windows, "ETH"))

\* C13: the regime a BTC/ETH price insert has just classified from m, the larger of
\* the two volatilities, is CALM when m < 0.02, NORMAL when 0.02 <= m < 0.05,
\* VOLATILE when 0.05 <= m < 0.10 and HIGHLY_VOLATILE when 0.10 <= m < 0.20.
CexC13_RegimeBuckets ==
    (IsOp("add_price_data") /\ last_op.ok) =>
        /\ MaxVolatility < 20 => last_op.kind = "CALM"
        /\ (20 <= MaxVolatility /\ MaxVolatility < 50) => last_op.kind = "NORMAL"
        /\ (50 <= MaxVolatility /\ MaxVolatility < 100) => last_op.kind = "VOLATILE"
        /\ (100 <= MaxVolatility /\ MaxVolatility < 200) => last_op.kind = "HIGHLY_VOLATILE"

\* C14: a should_filter_signal call with the regime omitted vetoes exactly when the
\* symbol is an altcoin and the committed regime is VOLATILE or HIGHLY_VOLATILE: never
\* a non-altcoin, never in CALM or NORMAL, whatever the pending candidate is.
ThmC14_FilterUsesCommittedRegime ==
    IsOp("should_filter_signal") =>
        (last_op.ok <=> (/\ last_op.kind = "altcoin"
                         /\ mr_current_regime \in {"VOLATILE", "HIGHLY_VOLATILE"}))

\* an altcoin passes in NORMAL while HIGHLY_VOLATILE is pending with two confirmations
WitC14_PendingCandidateNotUsed ==
    /\ IsOp("should_filter_signal") /\ last_op.kind = "altcoin" /\ ~last_op.ok
    /\ mr_current_regime = "NORMAL"
    /\ mr_pending_regime = "HIGHLY_VOLATILE"
    /\ mr_regime_confirmations = 2


----------------------------------------------------------------------------
(* Claims about the liquidity detector, checked under SpecLiquidity *)

RateSignificant(s) == RLe(change_rate_threshold, RAbs(CalculateLiquidityChangeRate(s)))

AccelerationSignificant(s) == RLe(acceleration_threshold, RAbs(CalculateLiquidityAcceleration(s)))

\* C15: when is_signal_triggered has just fired, the direction has the sign of the
\* statistic that crossed its threshold: LIQUIDITY_INCREASE exactly when the rate is
\* positive if only |rate| >= 0.1 holds, exactly when the acceleration is positive if
\* only |acceleration| >= 0.05 holds.
CexC15_DirectionOfTriggeringStatistic ==
    (IsOp("liquidity_is_signal_triggered") /\ last_op.ok) =>
        LET s == last_op.symbol
            increase == last_op.kind = "LIQUIDITY_INCREASE"
        IN /\ (RateSignificant(s) /\ ~AccelerationSignificant(s)) =>
                  (increase <=> RLt(RNum(0), CalculateLiquidityChangeRate(s)))
           /\ (AccelerationSignificant(s) /\ ~RateSignificant(s)) =>
                  (increase <=> RLt(RNum(0), CalculateLiquidityAcceleration(s)))

Reading(total_liquidity, timestamp) == [total_liquidity |-> total_liquidity, timestamp |-> timestamp]

\* 1,000,000 then 1,100,000 then 1,300,000 spread over the 60 s up to now
RisingReadings == <<Reading(200, now - 60), Reading(220, now - 30), Reading(260, now)>>

\* 1,000,000 then 1,500,000, 60 s apart
SingleJump == <<Reading(200, now - 60), Reading(300, now)>>

\* C16: is_signal_triggered, called outside the cooldown for a symbol whose window
\* holds 1,000,000, 1,100,000 and 1,300,000 spread over 60 s, or 1,000,000 and
\* 1,500,000 60 s apart, returns (True, LIQUIDITY_INCREASE).
CexC16_RisingLiquidityFires ==
    (/\ IsOp("liquidity_is_signal_triggered")
     /\ last_op.symbol \in DOMAIN lq_liquidity_windows
     /\ lq_liquidity_windows[last_op.symbol] \in {RisingReadings, SingleJump}
     /\ (last_op.ok \/ last_op.symbol \notin DOMAIN lq_signal_cooldowns)) =>
        (last_op.ok /\ last_op.kind = "LIQUIDITY_INCREASE")

\* the stored reading of symbol s with the latest timestamp
LatestReading(s) ==
    LET df == SortValuesByTimestamp(lq_liquidity_windows[s])
    IN df[Len(df)]

\* C17: is_signal_triggered never fires for a symbol whose reading with the latest
\* timestamp is below the minimum-liquidity threshold of 10,000.
CexC17_NoFiringBelowMinimumLiquidity ==
    (IsOp("liquidity_is_signal_triggered") /\ last_op.ok) =>
        LatestReading(last_op.symbol).total_liquidity >= min_liquidity_threshold


----------------------------------------------------------------------------
(* Claims about the slippage analyzer, checked under SpecSlippage *)

\* the levels of the side a call walks
SideOrders(orderbook, trade_side) ==
    LET side_name == IF trade_side = "BUY" THEN "asks" ELSE "bids"
    IN IF side_name \in DOMAIN orderbook THEN orderbook[side_name] ELSE <<>>

\* the quote-currency value of all the levels
RECURSIVE SideQuoteValue(_)
SideQuoteValue(orders) ==
    IF orders = <<>> THEN 0
    ELSE Head(orders)[1] * Head(orders)[2] + SideQuoteValue(Tail(orders))

\* the totals _calculate_vwap accumulates for a call
VwapTotals(orderbook, trade_size, trade_side) ==
    VwapLoop(SideOrders(orderbook, trade_side), trade_side,
             [total_cost |-> RNum(0), total_quantity |-> RNum(0),
              remaining_size |-> RNum(trade_size), available_liquidity |-> RNum(0),
              raised |-> FALSE])

\* the latest call was calculate_slippage and walked levels without raising
WalkedLevels ==
    /\ IsOp("calculate_slippage")
    /\ last_op.info[1].result.error \in {"None", "Insufficient liquidity"}

\* C18: for BUY and for SELL the quote value a calculate_slippage call fills (the
\* accumulated total_cost) never exceeds trade_size and equals the smaller of
\* trade_size and the quote value of all the levels of the side.
CexC18_FilledQuoteValue ==
    WalkedLevels =>
        LET d == last_op.info[1]
            filled == VwapTotals(d.orderbook, d.trade_size, last_op.kind).total_cost
        IN /\ RLe(filled, RNum(d.trade_size))
           /\ filled = RNum(Min(d.trade_size, SideQuoteValue(SideOrders(d.orderbook, last_op.kind))))

\* C19: calculate_slippage always returns a result; with no levels on the requested
\* side or a filled quantity of zero the result carries an error; and when it fills,
\* partial_fill is true exactly when the quote value of the side's levels is below the
\* requested trade_size.
CexC19_PartialFillWhenBookTooSmall ==
    IsOp("calculate_slippage") =>
        LET d == last_op.info[1]
            orders == SideOrders(d.orderbook, last_op.kind)
        IN /\ {"estimated_slippage", "error"} \subseteq DOMAIN d.result
           /\ orders = <<>> => d.result.error # "None"
           /\ (WalkedLevels /\ VwapTotals(d.orderbook, d.trade_size, last_op.kind).total_quantity = RNum(0))
                  => d.result.error # "None"
           /\ d.result.error = "None" =>
                  (d.result.partial_fill <=> SideQuoteValue(orders) < d.trade_size)

\* C20: should_cancel_signal(slippage, predicted_profit) returns True exactly when
\* slippage > 0.02 or predicted_profit - (slippage + 0.001) < 0.001; for a predicted
\* profit of 0.015 it returns False exactly when slippage + 0.001 <= 0.014.
ThmC20_CancelVerdict ==
    IsOp("should_cancel_signal") =>
        LET slippage == last_op.info[1].estimated_slippage
            predicted_profit == last_op.info[1].predicted_profit
        IN /\ last_op.ok <=>
                  \/ RLt(<<1, 50>>, slippage)
                  \/ RLt(RSub(predicted_profit, RAdd(slippage, <<1, 1000>>)), <<1, 1000>>)
           /\ predicted_profit = <<3, 200>> =>
                  (~last_op.ok <=> RLe(RAdd(slippage, <<1, 1000>>), <<7, 500>>))

\* slippage 0.013 against a predicted profit of 0.015 leaves exactly the minimum net
\* profit and is not cancelled
WitC20_NetProfitAtMinimum ==
    /\ IsOp("should_cancel_signal") /\ ~last_op.ok
    /\ last_op.info[1].estimated_slippage = <<13, 1000>>
    /\ last_op.info[1].predicted_profit = <<3, 200>>

\* the quote value of the best 20 levels of the side a call addresses
TopTwentyValue(orderbook, trade_side) ==
    LET orders == SideOrders(orderbook, trade_side)
    IN SideQuoteValue(SubSeq(orders, 1, Min(20, Len(orders))))

\* C21: get_optimal_trade_size returns after at most 20 iterations of its binary
\* search, and the size it returns never exceeds half the quote value of the best 20
\* levels of the requested side.
ThmC21_OptimalSizeSearchBounded ==
    IsOp("get_optimal_trade_size") =>
        LET d == last_op.info[1]
        IN /\ d.result.iterations <= 20
           /\ RLe(d.result.optimal_size,
                  RMul(RNum(TopTwentyValue(d.orderbook, last_op.kind)), <<1, 2>>))

\* on a book of 21 equal levels the search converges, before its 20th iteration, to a
\* size within 1% of half the value of the best 20 levels
WitC21_ConvergesBelowHalfOfTopTwenty ==
    /\ IsOp("get_optimal_trade_size")
    /\ last_op.info[1].orderbook = LongBook
    /\ last_op.info[1].result.iterations \in 1..19
    /\ RLt(RNum(495), last_op.info[1].result.optimal_size)
    /\ RLe(last_op.info[1].result.optimal_size, RNum(500))

----------------------------------------------------------------------------
(* Claims about the latency compensation manager, checked under SpecLatency *)

\* C22: after each record_latency call, if the overall adjustment factor differs
\* from 1.0 by more than 5%, every current threshold is its base threshold times
\* that factor (earlier factors do not enter it); otherwise, and when no weighted
\* component has a measurement, the call leaves every current threshold as it was.
ThmC22_ThresholdsAreBaseTimesFactor ==
    IsOp("record_latency") =>
        LET d == last_op.info[1]
        IN IF d.weighted /\ RLt(<<1, 20>>, RAbs(RSub(d.overall_adjustment, RNum(1))))
           THEN \A t \in DOMAIN lt_current_thresholds :
                    lt_current_thresholds[t] = RMul(base_thresholds[t], d.overall_adjustment)
           ELSE lt_current_thresholds = d.old_thresholds

\* a call that adjusts thresholds an earlier call had already moved off their base
WitC22_SecondAdjustment ==
    /\ IsOp("record_latency")
    /\ last_op.ok
    /\ last_op.info[1].old_thresholds # base_thresholds
    /\ last_op.info[1].old_thresholds # lt_current_thresholds

----------------------------------------------------------------------------
(* Claims about the volume-price detector, checked under SpecVolumePrice *)

\* the pattern the three statistics select, in the order ACCUMULATION, DISTRIBUTION,
\* BREAKOUT
FirstPattern(d) ==
    LET high_volume == d.volume_increase >= 20
        stable_price == d.price_stability <= 50
    IN IF high_volume /\ stable_price /\ d.correlation >= -30 /\ d.correlation <= 30 THEN "ACCUMULATION"
       ELSE IF high_volume /\ stable_price /\ d.correlation < -30 THEN "DISTRIBUTION"
       ELSE IF high_volume /\ d.correlation > 30 THEN "BREAKOUT"
       ELSE "None"

\* C28: a check of the volume-price detector fires at most one pattern, the first of
\* ACCUMULATION, DISTRIBUTION, BREAKOUT whose condition holds, records exactly that
\* one signal, and no two signals of a symbol are less than 180 s apart.
ThmC28_OnePatternThenCooldown ==
    /\ IsOp("vp_is_signal_triggered") =>
           LET d == last_op.info[1]
           IN /\ last_op.kind \in {"None", "ACCUMULATION", "DISTRIBUTION", "BREAKOUT"}
              /\ last_op.ok = (last_op.kind # "None")
              /\ ~d.in_cooldown => last_op.kind = FirstPattern(d)
              /\ last_op.ok => /\ vp_signal_history # <<>>
                               /\ vp_signal_history[Len(vp_signal_history)] = [symbol |-> last_op.symbol, signal_type |-> last_op.kind, timestamp |-> now]
    /\ \A i, j \in DOMAIN vp_signal_history :
           (i < j /\ vp_signal_history[i].symbol = vp_signal_history[j].symbol)
               => vp_signal_history[j].timestamp - vp_signal_history[i].timestamp >= 180

\* a check that fires once the cooldown of an earlier signal has run out, after a
\* check inside the cooldown was refused
WitC28_FiresAgainAfterCooldown ==
    /\ IsOp("vp_is_signal_triggered")
    /\ last_op.ok
    /\ Len(vp_signal_history) = 2
    /\ vp_signal_history[2].timestamp - vp_signal_history[1].timestamp = 180

----------------------------------------------------------------------------
(* Claims about the isolation of symbols, checked under SpecIsolation *)

\* all that the detectors, the aggregator and the cooldown manager hold for a symbol
SymbolState(s) ==
    [trade_window |-> Entry(of_trade_windows, s),
     order_flow_cooldown |-> Entry(of_signal_cooldowns, s),
     liquidity_window |-> Entry(lq_liquidity_windows, s),
     liquidity_cooldown |-> Entry(lq_signal_cooldowns, s),
     price_window |-> Entry(vp_price_windows, s),
     volume_window |-> Entry(vp_volume_windows, s),
     volume_price_cooldown |-> Entry(vp_signal_cooldowns, s),
     recent_signals |-> Entry(agg_recent_signals, s),
     aggregator_cooldown |-> Entry(agg_symbol_cooldowns, s),
     cooldown_period |-> Entry(cd_cooldown_periods, s),
     signal_history |-> Entry(cd_signal_history, s)]

\* C23: an operation addressed to one symbol (a sample added, a detector checked,
\* add_algorithm_signal, set_cooldown, is_in_cooldown, record_signal_result) leaves
\* the detector windows and cooldowns, the aggregator's buffer and cooldown, the
\* cooldown entry and the outcome history of every other symbol unchanged.
ThmC23_OtherSymbolUntouched ==
    [][\A b \in IsolationSymbols : last_op'.symbol # b => SymbolState(b)' = SymbolState(b)]_vars

\* an operation addressed to SOL while every component holds state for AVAX
WitC23_OtherSymbolHasState ==
    /\ last_op.symbol = "SOL"
    /\ last_op.op # "init"
    /\ "AVAX" \in DOMAIN of_trade_windows
    /\ "AVAX" \in DOMAIN of_signal_cooldowns
    /\ "AVAX" \in DOMAIN lq_liquidity_windows
    /\ "AVAX" \in DOMAIN lq_signal_cooldowns
    /\ "AVAX" \in DOMAIN vp_price_windows
    /\ "AVAX" \in DOMAIN vp_volume_windows
    /\ "AVAX" \in DOMAIN vp_signal_cooldowns
    /\ "AVAX" \in DOMAIN agg_symbol_cooldowns
    /\ "AVAX" \in DOMAIN cd_cooldown_periods
    /\ "AVAX" \in DOMAIN cd_signal_history

----------------------------------------------------------------------------
(* Claims about concurrent calls of the aggregator, checked under SpecRace *)

\* the combined signals emitted for the symbol of the last one within the cooldown
\* period before it
EarlierInPeriod ==
    LET n == Len(agg_combined_signals)
    IN {i \in 1..(n - 1) : /\ agg_combined_signals[i].symbol = agg_combined_signals[n].symbol
                           /\ agg_combined_signals[n].timestamp - agg_combined_signals[i].timestamp < 300}

\* C24: a CombinedSignal is emitted less than 300 s after another one for the same
\* symbol only by a call that passed the cooldown check before the cooldown of the
\* earlier one was set (the double fire of interleaved calls); a call whose check
\* comes after the set emits nothing, so calls that run check, confirmation and set
\* without interleaving emit at most one CombinedSignal per cooldown period.
ThmC24_DoubleFireOnlyByInterleaving ==
    (IsOp("_generate_combined_signal") /\ EarlierInPeriod # {})
        => (last_op.info[1].raced \/ last_op.info[1].unset)

\* both threads have emitted a CombinedSignal for the symbol at the same instant
WitC24_DoubleFire ==
    /\ IsOp("_generate_combined_signal")
    /\ Len(agg_combined_signals) = 2
    /\ agg_combined_signals[1].symbol = agg_combined_signals[2].symbol
    /\ agg_combined_signals[1].timestamp = agg_combined_signals[2].timestamp

----------------------------------------------------------------------------
(* Claims about the emitted combined signals, checked under SpecAgg *)

\* C27: the contributing algorithms of every emitted CombinedSignal form a set: no
\* algorithm name appears twice, and their number is the number of distinct algorithms.
CexC27_ContributingAlgorithmsFormSet ==
    \A k \in DOMAIN agg_combined_signals :
        LET names == agg_combined_signals[k].contributing_algorithms
        IN /\ \A i, j \in DOMAIN names : names[i] = names[j] => i = j
           /\ Len(names) = agg_combined_signals[k].algorithm_count

----------------------------------------------------------------------------
(* Claims about repeated cooldown queries, checked under SpecCooldown *)

\* C29: an is_in_cooldown(symbol) call that follows at once on another one for the
\* same symbol (no time elapsing, no other operation between them) returns what the
\* first returned.
ThmC29_RepeatedQuerySameAnswer ==
    IsOp("is_in_cooldown") =>
        /\ last_op.kind = "after True" => last_op.ok
        /\ last_op.kind = "after False" => ~last_op.ok

\* the second of two calls made after the expiry: the first one deleted the entry
WitC29_SecondCallAfterLazyDeletion ==
    /\ IsOp("is_in_cooldown")
    /\ last_op.kind = "after False"
    /\ last_op.symbol \in DOMAIN cd_last_set
    /\ now >= cd_last_set[last_op.symbol].at + 60 * cd_last_set[last_op.symbol].minutes

----------------------------------------------------------------------------
(* Claims about malformed samples, checked under SpecSamples *)

\* what a symbol's window holds: nothing when the symbol has no window
Contents(windows, s) == IF s \in DOMAIN windows THEN windows[s] ELSE <<>>

\* a stored sample carries a later timestamp than the one offered
NewerStored(window, sample) == \E i \in DOMAIN window : window[i].timestamp > sample.timestamp

MissingTradeField(trade) == ~({"side", "amount", "price", "timestamp"} \subseteq DOMAIN trade)

MissingReadingField(reading) == ~({"total_liquidity", "timestamp"} \subseteq DOMAIN reading)

MalformedTrade(window, trade) ==
    \/ MissingTradeField(trade)
    \/ trade.amount <= 0
    \/ trade.price <= 0
    \/ NewerStored(window, trade)

MalformedReading(window, reading) == MissingReadingField(reading) \/ NewerStored(window, reading)

\* C25: a sample that misses a required field, has a non-positive price or amount, or
\* is stamped earlier than the newest sample stored for its symbol is dropped: the
\* insert leaves the contents of the symbol's window as they were.
CexC25_MalformedSampleDropped ==
    [][/\ \A s \in Symbols, i \in DOMAIN SampleTrades :
              (AddTrade(s, Stamped(SampleTrades[i])) /\ MalformedTrade(Contents(of_trade_windows, s), Stamped(SampleTrades[i])))
                  => Contents(of_trade_windows, s)' = Contents(of_trade_windows, s)
       /\ \A s \in Symbols, i \in DOMAIN SampleReadings :
              (AddLiquidityData(s, StampedReading(SampleReadings[i])) /\ MalformedReading(Contents(lq_liquidity_windows, s), StampedReading(SampleReadings[i])))
                  => Contents(lq_liquidity_windows, s)' = Contents(lq_liquidity_windows, s)]_vars

----------------------------------------------------------------------------
(* Claims about detectors asked about a symbol without samples, checked     *)
(* under SpecIsolation. A detector creates a symbol's window at the first   *)
(* insert for it and no handler of the specification removes it: a symbol   *)
(* without a window is one no sample was ever added for.                    *)

\* the step was the detector's is_signal_triggered for the symbol
Asked(op, s) == last_op.op = op /\ last_op.symbol = s

ReturnsNoSignal == last_op.ok = FALSE /\ last_op.kind = "None"

\* C26: for a symbol no sample was ever added for, is_signal_triggered of the
\* order-flow, the liquidity and the volume-price detector returns no signal, and the
\* detector holds no cooldown and no signal record for the symbol.
ThmC26_NoSamplesNoSignal ==
    \A s \in IsolationSymbols :
        /\ s \notin DOMAIN of_trade_windows =>
               /\ Asked("is_signal_triggered", s) => ReturnsNoSignal
               /\ s \notin DOMAIN of_signal_cooldowns
               /\ s \notin DOMAIN of_last_fired
        /\ s \notin DOMAIN lq_liquidity_windows =>
               /\ Asked("liquidity_is_signal_triggered", s) => ReturnsNoSignal
               /\ s \notin DOMAIN lq_signal_cooldowns
               /\ s \notin DOMAIN lq_last_fired
        /\ (s \notin DOMAIN vp_price_windows /\ s \notin DOMAIN vp_volume_windows) =>
               /\ Asked("vp_is_signal_triggered", s) => ReturnsNoSignal
               /\ s \notin DOMAIN vp_signal_cooldowns
               /\ \A i \in DOMAIN vp_signal_history : vp_signal_history[i].symbol # s

\* the volume-price detector was asked about a symbol without samples after it had
\* fired for the other symbol
WitC26_AskedWithoutSamples ==
    \E s, other \in IsolationSymbols :
        /\ Asked("vp_is_signal_triggered", s)
        /\ s \notin DOMAIN vp_price_windows /\ s \notin DOMAIN vp_volume_windows
        /\ other \in DOMAIN vp_signal_cooldowns

----------------------------------------------------------------------------
(* Claims about the paper trading engine, checked under SpecPaper *)

\* an executed SELL signal whose fill price lies above the cost basis the position had
SoldAboveCost ==
    /\ last_op.op = "execute_signal" /\ last_op.kind = "SELL" /\ last_op.ok
    /\ last_op.info[1].cost_basis # <<>>
    /\ RLt(last_op.info[1].cost_basis[1], last_op.info[1].fill_price)

\* C30: after a buy, selling the whole position above its average cost records a
\* positive realized P&L: the P&L of the sell is its amount times the difference
\* between the fill price and the cost basis the position had before it was closed.
CexC30_SellAboveCostRealizesProfit ==
    SoldAboveCost =>
        LET trade == pt_trade_history[Len(pt_trade_history)]
        IN /\ RLt(RNum(0), SumPnl(pt_trade_history))
           /\ trade.pnl = PMul(trade.amount, PSub(trade.price, last_op.info[1].cost_basis[1]))

----------------------------------------------------------------------------
(* Claims about the detectors' signals forwarded to the aggregator, checked *)
(* under SpecPipeline                                                       *)

\* the signal types a detector emits
EmittedTypes(algorithm) ==
    CASE algorithm = "order_flow" -> {"BUY", "SELL"}
      [] algorithm = "liquidity" -> {"LIQUIDITY_INCREASE", "LIQUIDITY_DECREASE"}
      [] algorithm = "volume_price" -> {"ACCUMULATION", "DISTRIBUTION", "BREAKOUT"}

\* C31: the signals of the three detectors, forwarded unchanged under the detector's
\* name, carry pairwise disjoint types (BUY/SELL, LIQUIDITY_INCREASE/LIQUIDITY_DECREASE,
\* ACCUMULATION/DISTRIBUTION/BREAKOUT), and no sequence of firings makes the
\* aggregator emit a CombinedSignal.
ThmC31_ForwardedSignalsNeverCombine ==
    /\ agg_combined_signals = <<>>
    /\ \A s \in DOMAIN agg_recent_signals : \A i \in DOMAIN agg_recent_signals[s] :
           agg_recent_signals[s][i].signal_type \in EmittedTypes(agg_recent_signals[s][i].algorithm)
    /\ \A d \in PipeDetectors : (last_op.op = d[1] /\ last_op.ok) => last_op.kind \in EmittedTypes(d[2])
    /\ last_op.op = "add_algorithm_signal" => ~last_op.ok

\* the signals of all three detectors lie in the symbol's buffer, inside the window
WitC31_ThreeDetectorsBuffered ==
    \E s \in DOMAIN agg_recent_signals :
        /\ last_op.op = "add_algorithm_signal"
        /\ AlgorithmsUsed(agg_recent_signals[s]) = {"order_flow", "liquidity", "volume_price"}

----------------------------------------------------------------------------
(* Claims about the age of the raw signals, checked under SpecAgg *)

\* the step was an add_algorithm_signal that got past the cooldown test: it confirmed,
\* or the symbol is not in cooldown (the step changes neither clock nor cooldown then)
Inserted == last_op.op = "add_algorithm_signal" /\ (last_op.ok \/ ~AggIsInCooldown(last_op.symbol))

Age(sig) == now - sig.timestamp

\* C32: after an insert every raw signal left in the symbol's buffer is less than
\* 30 s old, and the insert confirmed only if the buffer holds two signals of its
\* type from different algorithms, each less than 30 s old.
ThmC32_OnlyFreshSignalsConfirm ==
    Inserted =>
        LET buffer == agg_recent_signals[last_op.symbol]
        IN /\ \A i \in DOMAIN buffer : Age(buffer[i]) < signal_window_seconds
           /\ last_op.ok =>
                  \E i, j \in DOMAIN buffer :
                      /\ buffer[i].algorithm # buffer[j].algorithm
                      /\ buffer[i].signal_type = last_op.kind /\ buffer[j].signal_type = last_op.kind
                      /\ Age(buffer[i]) < signal_window_seconds /\ Age(buffer[j]) < signal_window_seconds

\* a confirmation whose earlier signal was 15 s old when the later one was added
WitC32_ConfirmedWithAgedSignal ==
    /\ Inserted /\ last_op.ok
    /\ \E i \in DOMAIN agg_recent_signals[last_op.symbol] : Age(agg_recent_signals[last_op.symbol][i]) = 15

----------------------------------------------------------------------------
(* Claims about the combined strength, checked under SpecStrength *)

\* the configured weight of an algorithm
StaticWeight(algorithm) ==
    CASE algorithm = "order_flow" -> <<1, 1>>
      [] algorithm = "liquidity" -> <<1, 1>>
      [] algorithm = "volume_price" -> <<4, 5>>

\* staticWeight(algorithm) x max(0.5, 1 - age/30)
DecayedWeight(sig) ==
    RMul(StaticWeight(sig.algorithm), RMax(<<1, 2>>, RSub(<<1, 1>>, Frac(Age(sig), signal_window_seconds))))

RECURSIVE SumDecayedWeights(_)
SumDecayedWeights(sigs) ==
    IF sigs = <<>> THEN <<0, 1>> ELSE RAdd(DecayedWeight(Head(sigs)), SumDecayedWeights(Tail(sigs)))

RECURSIVE SumDecayedConfidences(_)
SumDecayedConfidences(sigs) ==
    IF sigs = <<>> THEN <<0, 1>>
    ELSE RAdd(RMul(Frac(Head(sigs).confidence, 100), DecayedWeight(Head(sigs))), SumDecayedConfidences(Tail(sigs)))

\* min(1.0, W + B) over the contributing signals
ExpectedStrength(sigs) ==
    LET W == RDiv(SumDecayedConfidences(sigs), SumDecayedWeights(sigs))
        B == RMin(<<1, 5>>, Frac(Cardinality(AlgorithmsUsed(sigs)) - 1, 10))
    IN RMin(<<1, 1>>, RAdd(W, B))

\* the raw signals the latest combined signal was made from
Contributing == MatchingSignals(agg_recent_signals, last_op.symbol, last_op.kind)

Emitted == last_op.op = "add_algorithm_signal" /\ last_op.ok

\* C33: the strength of every combined signal lies in [0, 1], and the strength of the
\* combined signal just emitted equals min(1.0, W + B), W the average of the contributing
\* confidences weighted by static weight x max(0.5, 1 - age/30), B the diversity bonus.
ThmC33_StrengthIsDecayedAveragePlusBonus ==
    /\ \A i \in DOMAIN agg_combined_signals :
           RLe(<<0, 1>>, agg_combined_signals[i].strength) /\ RLe(agg_combined_signals[i].strength, <<100, 1>>)
    /\ Emitted =>
           agg_combined_signals[Len(agg_combined_signals)].strength
               = RMul(<<100, 1>>, ExpectedStrength(Contributing))

\* a combined signal made from a volume_price signal at the decay floor (20 s old) and a
\* fresh signal of another confidence and weight
WitC33_DecayedWeightedAverage ==
    /\ Emitted
    /\ \E i, j \in DOMAIN Contributing :
           /\ Contributing[i].algorithm = "volume_price" /\ Age(Contributing[i]) = 20
           /\ Contributing[j].algorithm = "liquidity" /\ Age(Contributing[j]) = 0

----------------------------------------------------------------------------
(* Claims about the size returned by get_optimal_trade_size, checked under *)
(* SpecSlippage                                                             *)

\* get_optimal_trade_size returned a size other than zero
ReturnedNonZeroSize ==
    /\ last_op.op = "get_optimal_trade_size"
    /\ last_op.info[1].result.optimal_size # RNum(0)

\* calculate_slippage for the returned size on the same order book and side
SlippageOfReturnedSize ==
    CalculateSlippageOfSize(last_op.info[1].orderbook, last_op.info[1].result.optimal_size, last_op.kind)

\* C34: whenever get_optimal_trade_size returns a non-zero size, calculate_slippage
\* for that size on the same order book and side yields no error and an
\* estimated_slippage of at most max_slippage + 0.001.
CexC34_ReturnedSizeMeetsSlippageBound ==
    ReturnedNonZeroSize =>
        /\ SlippageOfReturnedSize.error = "None"
        /\ RLe(SlippageOfReturnedSize.estimated_slippage, RAdd(last_op.info[1].max_slippage, search_tolerance))

----------------------------------------------------------------------------
(* Claims about the stickiness of the adjusted thresholds, checked under SpecSticky *)

\* the overall factor of the record_latency call just made lies within 5% of 1.0
FactorInsideBand ==
    /\ last_op.op = "record_latency"
    /\ RLe(RAbs(RSub(last_op.info[1].overall_adjustment, RNum(1))), <<1, 20>>)

\* C35: a record_latency call whose overall factor is within 0.05 of 1.0 leaves the
\* thresholds as they were, loosened ones included; the thresholds change only in
\* reset_thresholds, which puts the base values back, or in a record_latency call
\* whose factor is outside the band.
ThmC35_LoosenedThresholdsStick ==
    [][/\ FactorInsideBand' => lt_current_thresholds' = lt_current_thresholds
       /\ lt_current_thresholds' # lt_current_thresholds =>
              \/ last_op'.op = "reset_thresholds"
              \/ last_op'.op = "record_latency" /\ ~FactorInsideBand'
       /\ last_op'.op = "reset_thresholds" => lt_current_thresholds' = base_thresholds]_vars

\* the latency has recovered (the overall factor of the call is 1.0) and the
\* thresholds are still base x 1.2
WitC35_RecoveredButLoosened ==
    /\ FactorInsideBand
    /\ last_op.info[1].overall_adjustment = RNum(1)
    /\ Len(lt_latency_history[StudiedComponent]) >= 2
    /\ lt_current_thresholds = [t \in DOMAIN base_thresholds |-> RMul(base_thresholds[t], adjustment_factors.medium)]

----------------------------------------------------------------------------
(* Claims about the regime while price data is short, checked under SpecRegime *)

RegimePair == {"BTC", "BTCUSDT", "ETH", "ETHUSDT"}

\* every BTC and ETH window holds fewer than 10 prices
PairWindowsShort ==
    \A s \in RegimePair : s \in DOMAIN mr_price_windows => mr_price_windows[s].len < min_price_points

\* the step was a price insert that ran a regime evaluation
Evaluated == last_op.op = "add_price_data" /\ last_op.ok

\* C36: while the BTC and ETH windows each hold fewer than 10 prices a regime
\* evaluation classifies CALM, and the third such evaluation in a row leaves
\* current_regime = CALM with no pending regime: three BTC/ETH inserts take the
\* initial NORMAL to CALM.
ThmC36_ShortWindowsClassifyCalm ==
    (Evaluated /\ PairWindowsShort) =>
        /\ last_op.kind = "CALM"
        /\ mr_streak.regime = "CALM"
        /\ mr_streak.count >= 3 =>
               /\ mr_current_regime = "CALM"
               /\ mr_pending_regime = "None"
               /\ mr_regime_confirmations = 0

\* the third insert since construction (two BTC prices, one ETH price) has just
\* committed CALM
WitC36_ThirdInsertCommitsCalm ==
    /\ Evaluated
    /\ "BTC" \in DOMAIN mr_price_windows /\ "ETH" \in DOMAIN mr_price_windows
    /\ mr_price_windows["BTC"].len = 2 /\ mr_price_windows["ETH"].len = 1
    /\ mr_streak = [regime |-> "CALM", count |-> 3]
    /\ mr_current_regime = "CALM"

----------------------------------------------------------------------------
(* Claims about the hysteresis state, checked under SpecRegime *)

\* C37: after every regime evaluation the confirmation count lies between 0 and
\* persistence - 1, the pending regime is absent exactly when the count is 0, and
\* a pending regime differs from the current regime.
ThmC37_HysteresisStateConsistent ==
    Evaluated =>
        /\ mr_regime_confirmations \in 0..(regime_persistence - 1)
        /\ (mr_pending_regime = "None") <=> (mr_regime_confirmations = 0)
        /\ mr_pending_regime # "None" => mr_pending_regime # mr_current_regime

\* a second confirmation of VOLATILE is pending after the regime had already
\* changed to CALM
WitC37_PendingAfterChange ==
    /\ Evaluated
    /\ mr_current_regime = "CALM"
    /\ mr_pending_regime = "VOLATILE"
    /\ mr_regime_confirmations = regime_persistence - 1

----------------------------------------------------------------------------
(* Claims about signals submitted during the aggregator cooldown, checked *)
(* under SpecAgg                                                          *)

\* the step is an add_algorithm_signal made while its symbol is in cooldown
SubmittedInCooldown == last_op'.op = "add_algorithm_signal" /\ AggIsInCooldown(last_op'.symbol)

\* the step is an add_algorithm_signal that confirms, for a symbol whose earlier
\* cooldown is still on record
ConfirmsAfterCooldown ==
    /\ last_op'.op = "add_algorithm_signal" /\ last_op'.ok
    /\ last_op'.symbol \in DOMAIN agg_symbol_cooldowns

\* C38: a raw signal submitted while its symbol is in cooldown is not buffered (the
\* call returns False and leaves the retained raw signals and the combined signals
\* as they were), and the raw signals of a confirmation after the cooldown were all
\* submitted at or after its end.
ThmC38_CooldownSubmissionsDiscarded ==
    [][/\ SubmittedInCooldown =>
              /\ ~last_op'.ok
              /\ agg_recent_signals' = agg_recent_signals
              /\ agg_combined_signals' = agg_combined_signals
       /\ ConfirmsAfterCooldown =>
              \A i \in DOMAIN agg_recent_signals'[last_op'.symbol] :
                  agg_recent_signals'[last_op'.symbol][i].timestamp >= agg_symbol_cooldowns[last_op'.symbol]]_vars

\* a submission rejected 15 s before the cooldown of its symbol ends
WitC38_RejectedShortlyBeforeEnd ==
    /\ last_op.op = "add_algorithm_signal" /\ ~last_op.ok
    /\ AggIsInCooldown(last_op.symbol)
    /\ agg_symbol_cooldowns[last_op.symbol] - now = 15

----------------------------------------------------------------------------
(* Claims about the slippage as a function of the trade size, checked under *)
(* SpecMonotone                                                             *)

\* the side of the book the call walked
WalkedSide == IF last_op.kind = "BUY" THEN last_op.info[1].orderbook.asks ELSE last_op.info[1].orderbook.bids

\* the side is listed best-first (asks ascending, bids descending) with positive
\* prices and quantities
ListedBestFirst(orders, trade_side) ==
    /\ orders # <<>>
    /\ \A i \in DOMAIN orders : orders[i][1] > 0 /\ orders[i][2] > 0
    /\ \A i \in 1..(Len(orders) - 1) :
           IF trade_side = "BUY" THEN orders[i][1] <= orders[i + 1][1] ELSE orders[i][1] >= orders[i + 1][1]

\* C39: on a side listed best-first with positive prices and quantities, the
\* estimated_slippage of calculate_slippage for the larger of two trade sizes is at
\* least the one for the smaller, for BUY and for SELL, and neither call fails.
ThmC39_SlippageNonDecreasingInSize ==
    (last_op.op = "calculate_slippage twice" /\ ListedBestFirst(WalkedSide, last_op.kind)) =>
        /\ last_op.info[1].of_smaller.error = "None"
        /\ last_op.info[1].of_larger.error = "None"
        /\ RLe(last_op.info[1].of_smaller.estimated_slippage, last_op.info[1].of_larger.estimated_slippage)

\* a SELL on the three-level book whose larger size reaches a deeper level and
\* slips more than the smaller one
WitC39_DeeperLevelSlipsMore ==
    /\ last_op.op = "calculate_slippage twice" /\ last_op.kind = "SELL"
    /\ last_op.info[1].orderbook = SteppedBook
    /\ last_op.info[1].smaller_size = 3 /\ last_op.info[1].larger_size = 5
    /\ RLt(RNum(0), last_op.info[1].of_smaller.estimated_slippage)
    /\ RLt(last_op.info[1].of_smaller.estimated_slippage, last_op.info[1].of_larger.estimated_slippage)

----------------------------------------------------------------------------
(* Claims about the cash balance of the paper trading engine, checked under *)
(* SpecOverdraw                                                             *)

\* execute_signal has just filled a BUY order
FilledBuy == last_op.op = "execute_signal" /\ last_op.kind = "BUY" /\ last_op.ok

\* what the BUY just filled cost: amount x fill price x (1 + fee)
CostOfLastTrade ==
    LET trade == pt_trade_history[Len(pt_trade_history)]
    IN PMul(PMul(trade.amount, trade.price), PAdd(RNum(1), pt_transaction_fee))

\* C40: current_balance is never negative: a BUY order is filled only if its cost
\* at the fill price, fee included, does not exceed the cash balance it is paid from.
CexC40_BalanceNeverNegative ==
    /\ RLe(RNum(0), pt_current_balance)
    /\ FilledBuy => RLe(CostOfLastTrade, PAdd(pt_current_balance, CostOfLastTrade))

====
